---- MODULE Spec2Model ----
(***************************************************************************)
(* Cross-filter coordination engine of the student performance dashboards. *)
(*                                                                         *)
(* Three variants of the engine are modelled side by side:                 *)
(*   "vega"    app_cross_filter_state_mamagement_vega.py (and app.py,      *)
(*             which holds the same callbacks): three stores, Altair       *)
(*             charts, process_signal in its first form;                   *)
(*   "quarter" app_perplexity_Quarter.py: four stores, the subject and     *)
(*             quarter charts are raw Vega, process_signal in its second   *)
(*             form (the one of app_cross_filter_placeholder_vega.py);     *)
(*   "plotly"  app_cross_filter_state_mamagement_plotly.py: four stores    *)
(*             and the time-view toggle, clickData payloads.               *)
(***************************************************************************)
EXTENDS Integers, Sequences, FiniteSets, TLC

VARIABLES
    variant,    \* which application file is running
    df,         \* the joined dataset: a sequence of records, never written
    ties,       \* how this build's sort_values orders records of equal value
    store,      \* component id -> value of the dcc.Store / toggle property
    last,       \* the latest finished invocation of the filter callback
    inflight,   \* requests sent by the browser and not yet answered
    shown,      \* outputs of the latest recompute written to the page
    scored      \* rows derived from scores that need not be whole numbers

vars == <<variant, df, ties, store, last, inflight, shown, scored>>

-----------------------------------------------------------------------------
(* Bounds of the model *)

NumCats == 2        \* categories of each nominal dimension that can be clicked
NumRows == 3        \* rows of the joined dataset
MaxInFlight == 2    \* requests that may be unanswered at the same time

-----------------------------------------------------------------------------
(* Python values.  A value carries its type, so that == and str() can be   *)
(* modelled as Python evaluates them.                                      *)

PyNone == [t |-> "none"]
PyStr(s) == [t |-> "str", v |-> s]
PyInt(n) == [t |-> "int", n |-> n]
PyList(items) == [t |-> "list", items |-> items]
PyDict(d) == [t |-> "dict", d |-> d]

Digits == <<"0", "1", "2", "3", "4", "5", "6", "7", "8", "9">>

\* str(x) for the scalars that reach process_signal
str(x) ==
    CASE x.t = "str" -> x
      [] x.t = "int" -> PyStr(Digits[x.n + 1])
      [] OTHER -> PyStr("None")

\* bool(x): None, "", 0, [] and {} are false
truthy(x) ==
    CASE x.t = "none" -> FALSE
      [] x.t = "str" -> x.v # ""
      [] x.t = "int" -> x.n # 0
      [] x.t = "list" -> x.items # <<>>
      [] x.t = "dict" -> DOMAIN x.d # {}
      [] OTHER -> TRUE

All == PyStr("All")

\* What a callback hands back to Dash: the tuple of outputs, or an exception
Return(out) == [ok |-> TRUE, out |-> out]
Raise(exc) == [ok |-> FALSE, exc |-> exc]

-----------------------------------------------------------------------------
(* Category domains *)

LevelNames == <<"Grade 9", "Grade 10", "Grade 11", "Grade 12">>
SubjectNames == <<"Math", "Science", "English", "History">>
grade_order == <<"A", "B", "C", "D", "F">>
QuarterNames == <<"2023 Q1", "2023 Q2", "2023 Q3", "2023 Q4">>
QuarterNames_Quarter == <<"2023-Q1", "2023-Q2", "2023-Q3", "2023-Q4">>
MonthNames == <<"2023-01", "2023-02", "2023-04", "2023-05">>

Prefix(names) == {names[i] : i \in 1..NumCats}

\* 'Q' in s, for the strings a time store can hold
ContainsQ(s) == \E i \in 1..Len(QuarterNames) : s = QuarterNames[i]

\* a in b for two strings: no key name occurs inside a category label, so
\* the only string that contains a key name is the key name itself
Substring(a, b) == a = b \/ (a = "Q" /\ ContainsQ(b))

-----------------------------------------------------------------------------
(* Components of each layout *)

Variants == {"vega", "quarter", "plotly"}

\* the Output list of the filter callback, in the order of the returned tuple
Outputs(v) ==
    CASE v = "vega" -> <<"store-grade", "store-subject", "store-assess-grade">>
      [] v = "quarter" ->
            <<"store-grade", "store-subject", "store-assess-grade", "store-quarter">>
      [] v = "plotly" ->
            <<"store-grade", "store-level", "store-time", "store-subject",
              "time-view-toggle">>

\* the State list of the filter callback: the dcc.Store components
States(v) ==
    CASE v = "vega" -> <<"store-grade", "store-subject", "store-assess-grade">>
      [] v = "quarter" ->
            <<"store-grade", "store-subject", "store-assess-grade", "store-quarter">>
      [] v = "plotly" -> <<"store-grade", "store-level", "store-time", "store-subject">>

Range(seq) == {seq[i] : i \in 1..Len(seq)}

Stores(v) == Range(States(v))

\* the chart components whose interaction events are Inputs of the callback
Charts(v) ==
    CASE v = "vega" -> {"chart-grade", "chart-subject", "chart-assess"}
      [] v = "quarter" -> {"chart-grade", "chart-subject", "chart-assess", "chart-quarter"}
      [] v = "plotly" -> {"chart-grade", "chart-level", "chart-time-trend", "chart-subject"}

\* a faulty wiring: the button id the callback compares with is not the id of
\* the button of the layout (the layouts name it btn-reset and reset-btn)
ResetButton_other_id(v) == IF v = "plotly" THEN "btn-reset" ELSE "reset-btn"

ResetButton(v) == IF v = "plotly" THEN "reset-btn" ELSE "btn-reset"

\* the store a chart filters, the signal it is observed through, the field of
\* the dataset it shows
StoreOf(v, c) ==
    CASE c = "chart-grade" -> "store-grade"
      [] c = "chart-subject" -> "store-subject"
      [] c = "chart-assess" -> "store-assess-grade"
      [] c = "chart-quarter" -> "store-quarter"
      [] c = "chart-level" -> "store-level"
      [] c = "chart-time-trend" -> "store-time"

SignalOf(c) ==
    CASE c = "chart-grade" -> "sel_grade"
      [] c = "chart-subject" -> "sel_subject"
      [] c = "chart-assess" -> "sel_assess"
      [] c = "chart-quarter" -> "sel_quarter"
      [] OTHER -> "clickData"

FieldOf(v, c) ==
    CASE c = "chart-grade" -> IF v = "plotly" THEN "Assessment_Grade" ELSE "GradeLevel"
      [] c = "chart-subject" -> "SubjectName"
      [] c = "chart-assess" -> "Assessment_Grade"
      [] c = "chart-quarter" -> "YearQuarterConcat"
      [] c = "chart-level" -> "GradeLevel"
      [] c = "chart-time-trend" -> "YearQuarterConcat"

\* how the chart is drawn: an Altair selection_point (the signal is a dict of
\* field -> list of values), a raw Vega signal (the signal is the value), a
\* Plotly pie (points carry 'label') or a Plotly bar (points carry 'x')
ChartKind(v, c) ==
    CASE v = "vega" -> "altair"
      [] v = "quarter" -> IF c \in {"chart-subject", "chart-quarter"} THEN "rawvega" ELSE "altair"
      [] v = "plotly" -> IF c \in {"chart-grade", "chart-level"} THEN "pie" ELSE "bar"

\* the categories a chart can show
Categories(v, c) ==
    CASE FieldOf(v, c) = "GradeLevel" -> Prefix(LevelNames)
      [] FieldOf(v, c) = "SubjectName" -> Prefix(SubjectNames)
      [] FieldOf(v, c) = "Assessment_Grade" -> Prefix(grade_order)
      [] c = "chart-quarter" -> Prefix(QuarterNames_Quarter)
      [] c = "chart-time-trend" -> Prefix(QuarterNames) \cup Prefix(MonthNames)

-----------------------------------------------------------------------------
(* Interaction payloads *)

\* signalData of a dvc.Vega component observing one signal whose value is sel
Signal(c, sel) == PyDict(SignalOf(c) :> sel)

\* an Altair point selection of the values vs of the chart's field
Selection(v, c, vs) == PyDict(FieldOf(v, c) :> PyList(vs))

\* clickData of a dcc.Graph: one clicked point
Point(kind, label) ==
    IF kind = "pie" THEN PyDict("label" :> PyStr(label))
                    ELSE PyDict("x" :> PyStr(label))

ClickData(points) == PyDict("points" :> PyList(points))

\* the payload by which chart c reports a click on category cat
Click(v, c, cat) ==
    CASE ChartKind(v, c) = "altair" -> Signal(c, Selection(v, c, <<PyStr(cat)>>))
      [] ChartKind(v, c) = "rawvega" -> Signal(c, PyStr(cat))
      [] OTHER -> ClickData(<<Point(ChartKind(v, c), cat)>>)

\* the signal is observed and carries no value: a click on empty space, or
\* a selection that was cleared
EmptyClicks(v, c) ==
    IF v = "plotly" THEN {}
    ELSE {Signal(c, PyNone), Signal(c, PyDict(<<>>))}

\* payloads that carry neither a category nor an empty selection
Malformed(v, c) ==
    IF v = "plotly" THEN {PyNone, PyDict(<<>>)}
    ELSE {PyNone,                                       \* no signalData at all
          PyDict("hovered_subject" :> PyNone),          \* another signal only
          Signal(c, PyDict("vlPoint" :> PyList(<<>>))), \* a selection without the field
          Signal(c, Selection(v, c, <<>>))}             \* the field with no value

\* payloads of a shape other than the one the chart is drawn to send: a
\* scalar where a selection is expected, a selection where a scalar is
\* expected, clickData without a point
Foreign(v, c) ==
    LET cat == CHOOSE x \in Categories(v, c) : TRUE IN
    CASE ChartKind(v, c) = "altair" -> {Signal(c, PyStr(cat)), Signal(c, PyInt(7))}
      [] ChartKind(v, c) = "rawvega" ->
            {Signal(c, PyDict("SubjectName" :> PyList(<<PyStr(cat)>>)))}
      [] OTHER -> {ClickData(<<>>)}

Payloads(v, c) ==
    {Click(v, c, cat) : cat \in Categories(v, c)}
        \cup EmptyClicks(v, c) \cup Malformed(v, c) \cup Foreign(v, c)

-----------------------------------------------------------------------------
(* The toggle interpreter of the Vega variants *)

\* key in container, for the containers a signal can be; an int has no `in`
Iterable(x) == x.t \in {"dict", "list", "str"}

In(key, x) ==
    CASE x.t = "dict" -> key.t = "str" /\ key.v \in DOMAIN x.d
      [] x.t = "list" -> \E i \in 1..Len(x.items) : x.items[i] = key
      [] x.t = "str" -> key.t = "str" /\ Substring(key.v, x.v)
      [] OTHER -> FALSE

\* a faulty toggle: the clicked value is stored whatever the current filter is
Toggle_select_only(clicked, current_filter) == Return(clicked)

\* a faulty toggle: a click can only clear, a filter once set is never replaced
Toggle_keep_first(clicked, current_filter) ==
    IF str(current_filter) # All THEN Return(All) ELSE Return(clicked)

\* a faulty toggle: the repeated click stores None to clear the filter
Toggle_clear_to_None(clicked, current_filter) ==
    IF str(current_filter) # All /\ str(clicked) = str(current_filter)
    THEN Return(PyNone)
    ELSE Return(clicked)

\* the toggle on the clicked value: the stored value again clears the filter
Toggle(clicked, current_filter) ==
    IF str(current_filter) # All /\ str(clicked) = str(current_filter)
    THEN Return(All)
    ELSE Return(clicked)

\* a faulty reading of the entry: an empty list clears the filter
FromList_empty_clears(entry, current_filter) ==
    IF entry.t \notin {"list", "str", "dict"} THEN Raise("TypeError")
    ELSE IF entry.t = "list" /\ Len(entry.items) > 0
         THEN IF str(current_filter) # All /\ str(entry.items[1]) = str(current_filter)
              THEN Return(All) ELSE Return(entry.items[1])
         ELSE Return(All)

\* len(sel[key_name]) > 0, clicked = sel[key_name][0] and the toggle on it.
\* The entry is the list of an Altair selection; None or a number has no len().
\* (An empty str or dict entry falls through like an empty list; a non-empty
\* one is sent by no payload of the model.)
FromList(entry, current_filter) ==
    IF entry.t \notin {"list", "str", "dict"} THEN Raise("TypeError")
    ELSE IF entry.t = "list" /\ Len(entry.items) > 0
         THEN Toggle(entry.items[1], current_filter)
         ELSE Return(current_filter)

\* a faulty process_signal: an empty selection is taken for no event
process_signal_empty_ignored(signal_data, signal_name, key_name, current_filter) ==
    IF ~truthy(signal_data) \/ ~In(PyStr(signal_name), signal_data)
    THEN Return(current_filter)
    ELSE LET sel == signal_data.d[signal_name] IN
         IF ~truthy(sel) THEN Return(current_filter)
         ELSE IF ~Iterable(sel) THEN Raise("TypeError")
         ELSE IF In(key_name, sel)
              THEN IF sel.t = "dict" THEN FromList(sel.d[key_name.v], current_filter)
                                     ELSE Raise("TypeError")
              ELSE Return(current_filter)

\* process_signal of app.py and app_cross_filter_state_mamagement_vega.py
process_signal(signal_data, signal_name, key_name, current_filter) ==
    IF ~truthy(signal_data) \/ ~In(PyStr(signal_name), signal_data)
    THEN Return(current_filter)
    ELSE LET sel == signal_data.d[signal_name] IN
         IF ~truthy(sel) THEN Return(All)
         ELSE IF ~Iterable(sel) THEN Raise("TypeError")
         ELSE IF In(key_name, sel)
              THEN IF sel.t = "dict" THEN FromList(sel.d[key_name.v], current_filter)
                                     ELSE Raise("TypeError")
              ELSE Return(current_filter)

\* process_signal of app_perplexity_Quarter.py and
\* app_cross_filter_placeholder_vega.py; key_name is None for the subject chart
process_signal_Quarter(signal_data, signal_name, key_name, current_filter) ==
    IF ~truthy(signal_data) \/ ~In(PyStr(signal_name), signal_data)
    THEN Return(current_filter)
    ELSE LET sel == signal_data.d[signal_name] IN
         IF ~truthy(sel) THEN Return(All)
         ELSE IF sel.t = "dict" /\ In(key_name, sel)
              THEN FromList(sel.d[key_name.v], current_filter)
         ELSE IF sel.t \in {"str", "int"}
              THEN Toggle(sel, current_filter)
         ELSE Return(current_filter)

\* manage_filters of app.py and app_cross_filter_state_mamagement_vega.py.
\* triggered is ctx.triggered reduced to the component ids of its prop_ids.
manage_filters(triggered, sig_grade, sig_subj, sig_assess, curr_grade, curr_subj, curr_assess) ==
    IF triggered = <<>> THEN Return(<<All, All, All>>)
    ELSE LET trigger_id == triggered[1] IN
    IF trigger_id = "btn-reset" THEN Return(<<All, All, All>>)
    ELSE IF trigger_id = "chart-grade" THEN
        LET new_grade == process_signal(sig_grade, "sel_grade",
                                        PyStr("GradeLevel"), curr_grade)
        IN  IF new_grade.ok THEN Return(<<new_grade.out, curr_subj, curr_assess>>)
                            ELSE new_grade
    ELSE IF trigger_id = "chart-subject" THEN
        LET new_subj == process_signal(sig_subj, "sel_subject",
                                       PyStr("SubjectName"), curr_subj)
        IN  IF new_subj.ok THEN Return(<<curr_grade, new_subj.out, curr_assess>>)
                           ELSE new_subj
    ELSE IF trigger_id = "chart-assess" THEN
        LET new_assess == process_signal(sig_assess, "sel_assess",
                                         PyStr("Assessment_Grade"), curr_assess)
        IN  IF new_assess.ok THEN Return(<<curr_grade, curr_subj, new_assess.out>>)
                             ELSE new_assess
    ELSE Return(<<curr_grade, curr_subj, curr_assess>>)

\* manage_filters of app_perplexity_Quarter.py
manage_filters_Quarter(triggered, sig_grade, sig_subj, sig_assess, sig_quarter, curr_grade, curr_subj, curr_assess, curr_quarter) ==
    IF triggered = <<>> THEN Return(<<All, All, All, All>>)
    ELSE LET trigger_id == triggered[1] IN
    IF trigger_id = "btn-reset" THEN Return(<<All, All, All, All>>)
    ELSE IF trigger_id = "chart-grade" THEN
        LET new_grade == process_signal_Quarter(sig_grade, "sel_grade",
                                                PyStr("GradeLevel"), curr_grade)
        IN  IF new_grade.ok
            THEN Return(<<new_grade.out, curr_subj, curr_assess, curr_quarter>>)
            ELSE new_grade
    ELSE IF trigger_id = "chart-subject" THEN
        LET new_subj == process_signal_Quarter(sig_subj, "sel_subject", PyNone, curr_subj)
        IN  IF new_subj.ok
            THEN Return(<<curr_grade, new_subj.out, curr_assess, curr_quarter>>)
            ELSE new_subj
    ELSE IF trigger_id = "chart-assess" THEN
        LET new_assess == process_signal_Quarter(sig_assess, "sel_assess",
                                                 PyStr("Assessment_Grade"), curr_assess)
        IN  IF new_assess.ok
            THEN Return(<<curr_grade, curr_subj, new_assess.out, curr_quarter>>)
            ELSE new_assess
    ELSE IF trigger_id = "chart-quarter" THEN
        LET new_quarter == process_signal_Quarter(sig_quarter, "sel_quarter",
                                                  PyStr("YearQuarterConcat"), curr_quarter)
        IN  IF new_quarter.ok
            THEN Return(<<curr_grade, curr_subj, curr_assess, new_quarter.out>>)
            ELSE new_quarter
    ELSE Return(<<curr_grade, curr_subj, curr_assess, curr_quarter>>)

-----------------------------------------------------------------------------
(* The toggle interpreter of the Plotly variant *)

\* click['points'][0][key]
ClickedVal(click, key) ==
    IF click.t # "dict" THEN Raise("TypeError")
    ELSE IF "points" \notin DOMAIN click.d THEN Raise("KeyError")
    ELSE LET points == click.d["points"] IN
         IF points.t # "list" THEN Raise("TypeError")
         ELSE IF Len(points.items) = 0 THEN Raise("IndexError")
         ELSE LET point == points.items[1] IN
              IF point.t # "dict" THEN Raise("TypeError")
              ELSE IF key \notin DOMAIN point.d THEN Raise("KeyError")
              ELSE Return(point.d[key])

\* a faulty update_filters: the time chart is one more toggle (the switch of
\* the view keeps the time selection, a click in Quarter view keeps the view)
update_filters_plain_toggle(triggered, click_grade, click_level, click_time, click_subject, view_mode, current_grade, current_level, current_time, current_subject) ==
    LET Answer(click, key, current, at) ==
            LET clicked_val == ClickedVal(click, key) IN
            IF ~clicked_val.ok THEN clicked_val
            ELSE LET new == IF clicked_val.out = current THEN All ELSE clicked_val.out
                     curr == <<current_grade, current_level, current_time, current_subject,
                               view_mode>>
                 IN  Return([curr EXCEPT ![at] = new])
    IN  IF triggered = <<>> \/ triggered[1] = "reset-btn"
        THEN Return(<<All, All, All, All, PyStr("Quarter")>>)
        ELSE IF triggered[1] = "chart-grade" /\ truthy(click_grade)
        THEN Answer(click_grade, "label", current_grade, 1)
        ELSE IF triggered[1] = "chart-level" /\ truthy(click_level)
        THEN Answer(click_level, "label", current_level, 2)
        ELSE IF triggered[1] = "chart-time-trend" /\ truthy(click_time)
        THEN Answer(click_time, "x", current_time, 3)
        ELSE IF triggered[1] = "chart-subject" /\ truthy(click_subject)
        THEN Answer(click_subject, "x", current_subject, 4)
        ELSE Return(<<current_grade, current_level, current_time, current_subject, view_mode>>)

update_filters(triggered, click_grade, click_level, click_time, click_subject, view_mode, current_grade, current_level, current_time, current_subject) ==
    IF triggered = <<>> THEN Return(<<All, All, All, All, PyStr("Quarter")>>)
    ELSE LET trigger_id == triggered[1] IN
    IF trigger_id = "reset-btn" THEN Return(<<All, All, All, All, PyStr("Quarter")>>)
    ELSE IF trigger_id = "time-view-toggle" THEN
        Return(<<current_grade, current_level, All, current_subject, view_mode>>)
    ELSE IF trigger_id = "chart-grade" /\ truthy(click_grade) THEN
        LET clicked_val == ClickedVal(click_grade, "label") IN
        IF ~clicked_val.ok THEN clicked_val
        ELSE LET new_grade == IF clicked_val.out = current_grade THEN All
                                                                 ELSE clicked_val.out
             IN  Return(<<new_grade, current_level, current_time, current_subject, view_mode>>)
    ELSE IF trigger_id = "chart-level" /\ truthy(click_level) THEN
        LET clicked_val == ClickedVal(click_level, "label") IN
        IF ~clicked_val.ok THEN clicked_val
        ELSE LET new_level == IF clicked_val.out = current_level THEN All
                                                                 ELSE clicked_val.out
             IN  Return(<<current_grade, new_level, current_time, current_subject, view_mode>>)
    ELSE IF trigger_id = "chart-time-trend" /\ truthy(click_time) THEN
        LET clicked_val == ClickedVal(click_time, "x") IN
        IF ~clicked_val.ok THEN clicked_val
        ELSE IF view_mode = PyStr("Quarter")
             THEN Return(<<current_grade, current_level, clicked_val.out, current_subject,
                           PyStr("Month")>>)
             ELSE LET new_time == IF clicked_val.out = current_time THEN All
                                                                    ELSE clicked_val.out
                  IN  Return(<<current_grade, current_level, new_time, current_subject,
                               view_mode>>)
    ELSE IF trigger_id = "chart-subject" /\ truthy(click_subject) THEN
        LET clicked_val == ClickedVal(click_subject, "x") IN
        IF ~clicked_val.ok THEN clicked_val
        ELSE LET new_subject == IF clicked_val.out = current_subject THEN All
                                                                     ELSE clicked_val.out
             IN  Return(<<current_grade, current_level, current_time, new_subject, view_mode>>)
    ELSE Return(<<current_grade, current_level, current_time, current_subject, view_mode>>)

-----------------------------------------------------------------------------
(* The callback as Dash wires it: Inputs and States by position, the       *)
(* returned tuple onto the Outputs by position.                            *)

\* inputs: chart id -> the value of its signalData / clickData property;
\* state: component id -> value, read when the request is made
Callback(v, triggered, inputs, state) ==
    CASE v = "vega" ->
            manage_filters(triggered,
                inputs["chart-grade"], inputs["chart-subject"], inputs["chart-assess"],
                state["store-grade"], state["store-subject"], state["store-assess-grade"])
      [] v = "quarter" ->
            manage_filters_Quarter(triggered,
                inputs["chart-grade"], inputs["chart-subject"], inputs["chart-assess"],
                inputs["chart-quarter"],
                state["store-grade"], state["store-subject"], state["store-assess-grade"],
                state["store-quarter"])
      [] v = "plotly" ->
            update_filters(triggered,
                inputs["chart-grade"], inputs["chart-level"], inputs["chart-time-trend"],
                inputs["chart-subject"], state["time-view-toggle"],
                state["store-grade"], state["store-level"], state["store-time"],
                state["store-subject"])

Position(seq, x) == CHOOSE i \in 1..Len(seq) : seq[i] = x

\* a faulty wiring: the returned tuple is laid onto the Outputs from its end
Written_reversed(v, state, ret) ==
    IF ret.ok THEN [id \in DOMAIN state |->
                        ret.out[Len(Outputs(v)) + 1 - Position(Outputs(v), id)]]
              ELSE state

\* the component properties after the response: an exception leaves them alone
Written(v, state, ret) ==
    IF ret.ok THEN [id \in DOMAIN state |-> ret.out[Position(Outputs(v), id)]]
              ELSE state

\* the layout: every dcc.Store and every dropdown holds 'All', the view
\* toggle 'Quarter'
Layout(v) ==
    IF v = "dropdown" THEN [id \in {"filter-grade", "filter-subject", "filter-quarter", "filter-pass"} |-> All]
    ELSE [id \in Range(Outputs(v)) |->
            IF id = "time-view-toggle" THEN PyStr("Quarter") ELSE All]

\* the Filter State: the stores without the view toggle
FilterState(v, state) == [id \in Stores(v) |-> state[id]]

\* only the chart that fired carries its event
OnlyInput(v, c, payload) == [x \in Charts(v) |-> IF x = c THEN payload ELSE PyNone]

NoInput(v) == [x \in Charts(v) |-> PyNone]

NoCall == [done |-> FALSE]

\* a finished invocation: what triggered it, the Input values, the event of
\* the first trigger, the properties it was given and what it returned
Finished(triggered, inputs, curr, ret) ==
    [done |-> TRUE, triggered |-> triggered, inputs |-> inputs,
     payload |-> IF triggered # <<>> /\ triggered[1] \in DOMAIN inputs
                 THEN inputs[triggered[1]] ELSE PyNone,
     curr |-> curr, ret |-> ret]

-----------------------------------------------------------------------------
(* The dataset: the fact table joined with its dimensions *)

NumPool == 7        \* fact rows the dataset is drawn from

Scores == <<90, 60, 40, 100, 80, 55, 85, 70, 54>>

\* a Score is a float: it is held as the fraction num / den, and a whole
\* number n as n / 1
Float(n) == [num |-> n, den |-> 1]

get_grade(s) ==
    IF s.num > 84 * s.den THEN "A"
    ELSE IF s.num > 74 * s.den THEN "B"
    ELSE IF s.num > 64 * s.den THEN "C"
    ELSE IF s.num > 54 * s.den THEN "D"
    ELSE "F"

\* a faulty PassedScore: a score of exactly 55 fails
PassedScore_above(x) == IF x.num > 55 * x.den THEN "Pass" ELSE "Fail"

PassedScore(x) == IF x.num >= 55 * x.den THEN "Pass" ELSE "Fail"

\* DimCalendar: a date key has one month and one quarter, two months a quarter
QuarterOf(datekey) == (datekey + 1) \div 2

YearQuarterConcat(v, datekey) ==
    IF v = "quarter" THEN QuarterNames_Quarter[QuarterOf(datekey)]
                     ELSE QuarterNames[QuarterOf(datekey)]

\* DimStudents: the grade level of a student
LevelOf(student) == LevelNames[1 + ((student - 1) % NumCats)]

\* the derived weight fields of the Plotly variant: a Weight column the file
\* lacks is 1, a WeightedScore column it lacks is Score * Weight; the other
\* variants leave the columns of the file as they are
Derived(v, r) ==
    IF v # "plotly" THEN r
    ELSE LET w == IF "Weight" \in DOMAIN r THEN r ELSE r @@ [Weight |-> 1]
         IN  IF "WeightedScore" \in DOMAIN w THEN w
             ELSE w @@ [WeightedScore |-> w.Score * w.Weight]

\* the i-th row of FactPerformance joined with its dimensions
Fact(v, i) ==
    LET student == 1 + ((i - 1) % 3)
        score == Scores[1 + ((i - 1) % Len(Scores))]
        datekey == 1 + (((i - 1) \div 3) % (NumCats + 1))
    IN  [StudentID |-> student,
         GradeLevel |-> PyStr(LevelOf(student)),
         SubjectName |-> PyStr(SubjectNames[1 + (((i - 1) \div 2) % NumCats)]),
         Score |-> score,
         YearQuarterConcat |-> PyStr(YearQuarterConcat(v, datekey)),
         YearMonthConcat |-> PyStr(MonthNames[datekey]),
         PassedScore |-> PassedScore(Float(score)),
         Assessment_Grade |-> PyStr(get_grade(Float(score)))]

\* the i-th row of the frame df of variant v, the file having no weight column
Joined(v, i) == Derived(v, Fact(v, i))

\* the strictly increasing index sequences of at most n indices out of 1..m
RECURSIVE Picks(_, _)
Picks(m, n) ==
    IF m = 0 \/ n = 0 THEN {<<>>}
    ELSE Picks(m - 1, n) \cup {Append(p, m) : p \in Picks(m - 1, n - 1)}

\* the datasets considered: the fact tables of at most NumRows rows
Datasets(v) ==
    {[k \in 1..Len(p) |-> Joined(v, p[k])] : p \in Picks(NumPool, NumRows)}

\* the dataset of the worked example: scores 90, 60 and 40
ExampleDataset(v) == [k \in 1..3 |-> Joined(v, k)]

-----------------------------------------------------------------------------
(* Predicate builder *)

\* d[d[column] == value]
Where(d, column, value) ==
    LET Keep(r) == r[column] = value IN SelectSeq(d, Keep)

\* a faulty filter_df: every mask is applied to the unfiltered frame, so the
\* last selected dimension alone decides
filter_df_last_wins(d0, sel_grade, sel_subj, sel_assess, ignore_grade, ignore_subj, ignore_assess) ==
    LET d1 == IF ~ignore_grade /\ sel_grade # All
              THEN Where(d0, "GradeLevel", sel_grade) ELSE d0
        d2 == IF ~ignore_subj /\ sel_subj # All
              THEN Where(d0, "SubjectName", sel_subj) ELSE d1
        d3 == IF ~ignore_assess /\ sel_assess # All
              THEN Where(d0, "Assessment_Grade", sel_assess) ELSE d2
    IN  d3

\* filter_df of update_visuals (app.py, app_cross_filter_state_mamagement_vega.py)
filter_df(d0, sel_grade, sel_subj, sel_assess, ignore_grade, ignore_subj, ignore_assess) ==
    LET d1 == IF ~ignore_grade /\ sel_grade # All
              THEN Where(d0, "GradeLevel", sel_grade) ELSE d0
        d2 == IF ~ignore_subj /\ sel_subj # All
              THEN Where(d1, "SubjectName", sel_subj) ELSE d1
        d3 == IF ~ignore_assess /\ sel_assess # All
              THEN Where(d2, "Assessment_Grade", sel_assess) ELSE d2
    IN  d3

\* local_filter_df of update_visuals (app_perplexity_Quarter.py)
local_filter_df(d0, sel_grade, sel_subj, sel_assess, sel_quarter, ignore_grade, ignore_subj, ignore_assess, ignore_quarter) ==
    LET d1 == IF ~ignore_grade /\ sel_grade # All
              THEN Where(d0, "GradeLevel", sel_grade) ELSE d0
        d2 == IF ~ignore_subj /\ sel_subj # All
              THEN Where(d1, "SubjectName", sel_subj) ELSE d1
        d3 == IF ~ignore_assess /\ sel_assess # All
              THEN Where(d2, "Assessment_Grade", sel_assess) ELSE d2
        d4 == IF ~ignore_quarter /\ sel_quarter # All
              THEN Where(d3, "YearQuarterConcat", sel_quarter) ELSE d3
    IN  d4

\* get_context_data of update_ui (app_cross_filter_state_mamagement_plotly.py)
get_context_data(d0, selected_grade, selected_level, selected_time, selected_subject, ignore_grade, ignore_level, ignore_time, ignore_subject) ==
    LET d1 == IF ~ignore_grade /\ selected_grade # All
              THEN Where(d0, "Assessment_Grade", selected_grade) ELSE d0
        d2 == IF ~ignore_level /\ selected_level # All
              THEN Where(d1, "GradeLevel", selected_level) ELSE d1
        d3 == IF ~ignore_subject /\ selected_subject # All
              THEN Where(d2, "SubjectName", selected_subject) ELSE d2
        d4 == IF ~ignore_time /\ selected_time # All
              THEN IF selected_time.t = "str" /\ Substring("Q", selected_time.v)
                   THEN Where(d3, "YearQuarterConcat", selected_time)
                   ELSE Where(d3, "YearMonthConcat", selected_time)
              ELSE d3
    IN  d4

-----------------------------------------------------------------------------
(* Aggregator *)

\* the labels a column can hold, in the order Python sorts strings
LexOrder(column) ==
    CASE column = "GradeLevel" -> <<"Grade 10", "Grade 11", "Grade 12", "Grade 9">>
      [] column = "SubjectName" -> <<"English", "History", "Math", "Science">>
      [] column = "Assessment_Grade" -> <<"A", "B", "C", "D", "F">>
      [] column = "YearQuarterConcat" ->
            <<"2023 Q1", "2023 Q2", "2023 Q3", "2023 Q4",
              "2023-Q1", "2023-Q2", "2023-Q3", "2023-Q4">>
      [] column = "YearMonthConcat" -> <<"2023-01", "2023-02", "2023-04", "2023-05">>

\* the group keys of d.groupby(column), sorted
GroupKeys(d, column) ==
    LET Present(label) == \E i \in 1..Len(d) : d[i][column] = PyStr(label)
    IN  SelectSeq(LexOrder(column), Present)

RECURSIVE SumScore(_)
SumScore(d) == IF d = <<>> THEN 0 ELSE d[1].Score + SumScore(Tail(d))

\* d['Score'].mean() as the exact fraction sum / n
Mean(d) == [sum |-> SumScore(d), n |-> Len(d)]

\* a > b for two means
MeanGreater(a, b) == a.sum * b.n > b.sum * a.n

\* d.groupby(column)['StudentID'].nunique()
NUnique(d, column, label) ==
    Cardinality({d[i].StudentID : i \in {j \in 1..Len(d) : d[j][column] = PyStr(label)}})

\* the number of rows of d whose column is label
Count(d, column, label) ==
    Cardinality({i \in 1..Len(d) : d[i][column] = PyStr(label)})

\* sort_values(ascending=False) of records with a mean in field Score:
\* insertion from the left, equal means keep their order
RECURSIVE InsertDesc(_, _)
InsertDesc(sorted, rec) ==
    IF sorted = <<>> THEN <<rec>>
    ELSE IF MeanGreater(rec.Score, sorted[1].Score)
         THEN <<rec>> \o sorted
         ELSE <<sorted[1]>> \o InsertDesc(Tail(sorted), rec)

RECURSIVE SortDesc(_)
SortDesc(recs) ==
    IF recs = <<>> THEN <<>>
    ELSE InsertDesc(SortDesc(SubSeq(recs, 1, Len(recs) - 1)), recs[Len(recs)])

\* the chart drawn for an empty frame
NoData == [nodata |-> TRUE]

Chart(data, selected_val) ==
    [nodata |-> FALSE, data |-> data,
     selected |-> IF selected_val # All THEN selected_val ELSE PyNone]

\* build_donut_grade: unique students per grade level
build_donut_grade(df_in, selected_val) ==
    IF df_in = <<>> THEN NoData
    ELSE LET keys == GroupKeys(df_in, "GradeLevel")
             agg == [k \in 1..Len(keys) |->
                        [GradeLevel |-> keys[k],
                         UniqueStudents |-> NUnique(df_in, "GradeLevel", keys[k])]]
         IN  Chart(agg, selected_val)

\* build_donut_assess: exam records per assessment grade, reindexed on A..F
build_donut_assess(df_in, selected_val) ==
    IF df_in = <<>> THEN NoData
    ELSE LET counts == [k \in 1..Len(grade_order) |->
                        [Assessment_Grade |-> grade_order[k],
                         ExamCount |-> Count(df_in, "Assessment_Grade", grade_order[k])]]
         IN  Chart(counts, selected_val)

\* the mean score of each group of d.groupby(column)
GroupMeans(d, column) ==
    LET keys == GroupKeys(d, column)
    IN  [k \in 1..Len(keys) |->
            [category |-> keys[k],
             Score |-> Mean(Where(d, column, PyStr(keys[k])))]]

\* agg.sort_values("Score", ascending=False).  The default kind is quicksort,
\* which pandas documents as not stable: records of equal mean come out in
\* the order they had ('kept', what a stable sort does) or the other way
\* round ('reversed'), as the build sorts, the same in every call.
sort_values(recs) ==
    SortDesc(IF ties = "kept" THEN recs
             ELSE [i \in 1..Len(recs) |-> recs[Len(recs) + 1 - i]])

\* build_bar_subject of the Altair variant: mean score per subject, descending
build_bar_subject(df_in, selected_val) ==
    IF df_in = <<>> THEN NoData
    ELSE Chart(sort_values(GroupMeans(df_in, "SubjectName")), selected_val)

\* the x scale of the raw Vega spec: the domain sorted by the mean, descending
\* (Vega sorts with the array sort of JavaScript, which keeps the order of
\* equal values)
DomainSort(data) == SortDesc(data)

\* build_bar_subject of app_perplexity_Quarter.py: the raw Vega spec is given
\* the groups in key order and sorts them itself
build_bar_subject_Quarter(df_in, selected_val) ==
    IF df_in = <<>> THEN NoData
    ELSE Chart(GroupMeans(df_in, "SubjectName"), selected_val)

\* build_bar_quarter: mean score per quarter with the mean of the whole frame
build_bar_quarter(df_in, selected_quarter) ==
    IF df_in = <<>> THEN NoData
    ELSE LET agg_quarter == GroupMeans(df_in, "YearQuarterConcat")
             global_mean == Mean(df_in)
         IN  Chart([k \in 1..Len(agg_quarter) |->
                        [category |-> agg_quarter[k].category,
                         Score |-> agg_quarter[k].Score,
                         MeanScore |-> global_mean]],
                   selected_quarter)

-----------------------------------------------------------------------------
(* Recompute: KPIs from the fully filtered frame, each chart from the      *)
(* frame filtered by the other dimensions                                  *)

perfect_target == 100

Passed(d) == Cardinality({i \in 1..Len(d) : d[i].PassedScore = "Pass"})

Perfect(d) == Cardinality({i \in 1..Len(d) : d[i].Score = perfect_target})

\* column in d.columns, for a frame with a row
HasColumn(d, column) == column \in DOMAIN d[1]

\* d[column].sum()
RECURSIVE Sum(_, _)
Sum(d, column) == IF d = <<>> THEN 0 ELSE d[1][column] + Sum(Tail(d), column)

RECURSIVE Pow10(_)
Pow10(p) == IF p = 0 THEN 1 ELSE 10 * Pow10(p - 1)

\* num / den in units of 10^-places, rounded to the nearest unit and to the
\* even one when num / den lies halfway (num >= 0, den > 0)
Rounded(num, den, places) ==
    LET scaled == num * Pow10(places)
        q == scaled \div den
        twice == 2 * (scaled % den)
    IN  IF twice > den \/ (twice = den /\ q % 2 = 1) THEN q + 1 ELSE q

\* the decimal digits of n, zero-padded on the left to width digits
RECURSIVE Padded(_, _)
Padded(n, width) ==
    IF width = 0 THEN ""
    ELSE Padded(n \div 10, width - 1) \o ToString(n % 10)

\* f"{num / den:.{places}f}"
Format(num, den, places) ==
    LET units == Rounded(num, den, places)
    IN  ToString(units \div Pow10(places)) \o "." \o Padded(units % Pow10(places), places)

\* the KPI block of update_visuals (app.py, the Vega variants)
\* (df_kpi['PassedScore'] == 'Pass').mean() * 100, one decimal place
k_pass(df_kpi) == Format(100 * Passed(df_kpi), Len(df_kpi), 1) \o "%"

Kpis(df_kpi) ==
    IF df_kpi = <<>>
    THEN [k_avg |-> "N/A", k_w |-> "N/A", k_pass |-> "N/A", k_perf |-> "N/A"]
    ELSE LET k_avg == Format(SumScore(df_kpi), Len(df_kpi), 2)
             total_w == Sum(df_kpi, "Weight")
         IN  [k_avg |-> k_avg,
              k_w |-> IF HasColumn(df_kpi, "WeightedScore") /\ HasColumn(df_kpi, "Weight")
                      THEN IF total_w > 0
                           THEN Format(Sum(df_kpi, "WeightedScore"), total_w, 2)
                           ELSE k_avg
                      ELSE k_avg,
              k_pass |-> k_pass(df_kpi),
              k_perf |-> Format(100 * Perfect(df_kpi), Len(df_kpi), 1) \o "%"]

\* df["Score"].max() > 1
MaxScoreAboveOne(d) == \E i \in 1..Len(d) : d[i].Score > 1

\* the KPI block of update_ui: d is the whole frame df
Kpis_ui(d, fully_filtered) ==
    IF fully_filtered = <<>>
    THEN [k_avg |-> "0.00", k_w |-> "0.00", k_pass |-> "0.00%", k_perf |-> "0.0%"]
    ELSE LET w_sum == Sum(fully_filtered, "Weight")
             target == IF MaxScoreAboveOne(d) THEN 100 ELSE 1
             perfect == Cardinality({i \in 1..Len(fully_filtered) :
                                        fully_filtered[i].Score = target})
         IN  [k_avg |-> Format(SumScore(fully_filtered), Len(fully_filtered), 2),
              k_w |-> IF w_sum > 0
                      THEN Format(Sum(fully_filtered, "WeightedScore"), w_sum, 2)
                      ELSE "0.00",
              k_pass |-> Format(100 * Passed(fully_filtered), Len(fully_filtered), 2) \o "%",
              k_perf |-> Format(100 * perfect, Len(fully_filtered), 1) \o "%"]

\* the names the status text gives the selections, in the order of its pairs
StatusLabels(v) ==
    CASE v = "vega" -> <<"GradeLevel", "Subject", "Assessment Grade">>
      [] v = "quarter" -> <<"Grade", "Subject", "Assess", "Quarter">>
      [] v = "plotly" -> <<"Grade", "Level", "Time", "Sub">>

\* one pair of the status text: the f-string puts str() of the selection
StatusPair(v, label, value) ==
    IF v = "plotly" THEN label \o ": " \o str(value).v
                    ELSE label \o "='" \o str(value).v \o "'"

\* status_text of the recompute: a pair for each selection in sels
status_text(v, sels) ==
    LET Pair(i) == StatusPair(v, StatusLabels(v)[i], sels[i])
    IN  (IF v = "plotly" THEN "Filters | " ELSE "Filters: ")
            \o Pair(1) \o " | " \o Pair(2) \o " | " \o Pair(3)
            \o (IF Len(sels) > 3 THEN " | " \o Pair(4) ELSE "")

\* a faulty update_visuals: every chart is drawn from the fully filtered frame
update_visuals_no_exclusion(d, sel_grade, sel_subj, sel_assess) ==
    LET df_kpi == filter_df(d, sel_grade, sel_subj, sel_assess, FALSE, FALSE, FALSE)
    IN  [kpi |-> Kpis(df_kpi),
         charts |-> ("chart-grade" :> build_donut_grade(df_kpi, sel_grade))
                    @@ ("chart-assess" :> build_donut_assess(df_kpi, sel_assess))
                    @@ ("chart-subject" :> build_bar_subject(df_kpi, sel_subj)),
         status |-> status_text("vega", <<sel_grade, sel_subj, sel_assess>>)]

\* update_visuals of app.py and app_cross_filter_state_mamagement_vega.py
update_visuals(d, sel_grade, sel_subj, sel_assess) ==
    LET df_kpi == filter_df(d, sel_grade, sel_subj, sel_assess, FALSE, FALSE, FALSE)
        df_grade == filter_df(d, sel_grade, sel_subj, sel_assess, TRUE, FALSE, FALSE)
        df_assess == filter_df(d, sel_grade, sel_subj, sel_assess, FALSE, FALSE, TRUE)
        df_subject == filter_df(d, sel_grade, sel_subj, sel_assess, FALSE, TRUE, FALSE)
    IN  [kpi |-> Kpis(df_kpi),
         charts |-> ("chart-grade" :> build_donut_grade(df_grade, sel_grade))
                    @@ ("chart-assess" :> build_donut_assess(df_assess, sel_assess))
                    @@ ("chart-subject" :> build_bar_subject(df_subject, sel_subj)),
         status |-> status_text("vega", <<sel_grade, sel_subj, sel_assess>>)]

\* update_visuals of app_perplexity_Quarter.py
update_visuals_Quarter(d, sel_grade, sel_subj, sel_assess, sel_quarter) ==
    LET df_kpi == local_filter_df(d, sel_grade, sel_subj, sel_assess, sel_quarter,
                                  FALSE, FALSE, FALSE, FALSE)
        df_grade == local_filter_df(d, sel_grade, sel_subj, sel_assess, sel_quarter,
                                    TRUE, FALSE, FALSE, FALSE)
        df_assess == local_filter_df(d, sel_grade, sel_subj, sel_assess, sel_quarter,
                                     FALSE, FALSE, TRUE, FALSE)
        df_subject == local_filter_df(d, sel_grade, sel_subj, sel_assess, sel_quarter,
                                      FALSE, TRUE, FALSE, FALSE)
        df_quarter == local_filter_df(d, sel_grade, sel_subj, sel_assess, sel_quarter,
                                      FALSE, FALSE, FALSE, TRUE)
    IN  [kpi |-> Kpis(df_kpi),
         charts |-> ("chart-grade" :> build_donut_grade(df_grade, sel_grade))
                    @@ ("chart-assess" :> build_donut_assess(df_assess, sel_assess))
                    @@ ("chart-subject" :> build_bar_subject_Quarter(df_subject, sel_subj))
                    @@ ("chart-quarter" :> build_bar_quarter(df_quarter, sel_quarter)),
         status |-> status_text("quarter", <<sel_grade, sel_subj, sel_assess, sel_quarter>>)]

\* '-' in s, for the strings a time store can hold
ContainsDash(s) == \E i \in 1..Len(MonthNames) : s = MonthNames[i]

\* the time-trend chart of update_ui
TimeTrend(d, selected_grade, selected_level, selected_time, selected_subject, view_mode) ==
    LET d_other == get_context_data(d, selected_grade, selected_level, selected_time,
                                    selected_subject, FALSE, FALSE, TRUE, FALSE)
        month == view_mode = PyStr("Month") /\ selected_time # All
        \* df[df["YearMonthConcat"] == selected_time]["YearQuarterConcat"].iloc[0]
        of_month == Where(d, "YearMonthConcat", selected_time)
        time_col == IF view_mode = PyStr("Quarter") THEN "YearQuarterConcat"
                                                    ELSE "YearMonthConcat"
    IN  IF month /\ ~Substring("Q", selected_time.v) /\ ContainsDash(selected_time.v)
           /\ of_month = <<>>
        THEN Raise("IndexError")
        ELSE LET d_time ==
                    IF month /\ Substring("Q", selected_time.v)
                    THEN Where(d_other, "YearQuarterConcat", selected_time)
                    ELSE IF month /\ ContainsDash(selected_time.v)
                    THEN Where(d_other, "YearQuarterConcat", of_month[1].YearQuarterConcat)
                    ELSE d_other
             IN  IF d_time = <<>> THEN Return(NoData)
                 ELSE Return(Chart(GroupMeans(d_time, time_col), selected_time))

\* update_ui of app_cross_filter_state_mamagement_plotly.py
update_ui(d, selected_grade, selected_level, selected_time, selected_subject, view_mode) ==
    LET fully_filtered == get_context_data(d, selected_grade, selected_level,
                              selected_time, selected_subject, FALSE, FALSE, FALSE, FALSE)
        df_grade_ctx == get_context_data(d, selected_grade, selected_level,
                              selected_time, selected_subject, TRUE, FALSE, FALSE, FALSE)
        df_level_ctx == get_context_data(d, selected_grade, selected_level,
                              selected_time, selected_subject, FALSE, TRUE, FALSE, FALSE)
        df_sub_ctx == get_context_data(d, selected_grade, selected_level,
                              selected_time, selected_subject, FALSE, FALSE, FALSE, TRUE)
        fig_time == TimeTrend(d, selected_grade, selected_level, selected_time,
                              selected_subject, view_mode)
    IN  IF ~fig_time.ok THEN fig_time
        ELSE Return(
        [kpi |-> Kpis_ui(d, fully_filtered),
         charts |-> ("chart-grade" :> build_donut_assess(df_grade_ctx, selected_grade))
                    @@ ("chart-level" :> build_donut_grade(df_level_ctx, selected_level))
                    @@ ("chart-time-trend" :> fig_time.out)
                    @@ ("chart-subject" :> build_bar_subject(df_sub_ctx, selected_subject)),
         status |-> status_text("plotly", <<selected_grade, selected_level, selected_time,
                                            selected_subject>>),
         title |-> selected_time])

-----------------------------------------------------------------------------
(* The dropdown dashboard (app_dropdown_menu_vega.py): four dropdowns are   *)
(* the Inputs of one callback, update_dashboard; there is no store          *)

Dropdowns == <<"filter-grade", "filter-subject", "filter-quarter", "filter-pass">>

\* the options of a dropdown: 'All' and the values of its column in df,
\* 'All', 'Pass' and 'Fail' for filter-pass
Options(d, id) ==
    LET Values(column) == {d[i][column] : i \in 1..Len(d)}
    IN  {All} \cup
        CASE id = "filter-grade" -> Values("GradeLevel")
          [] id = "filter-subject" -> Values("SubjectName")
          [] id = "filter-quarter" -> Values("YearQuarterConcat")
          [] id = "filter-pass" -> {PyStr("Pass"), PyStr("Fail")}

\* sort_values(ascending=False) of records with a count: insertion from the
\* left, equal counts keep their order
RECURSIVE InsertByCount(_, _)
InsertByCount(sorted, rec) ==
    IF sorted = <<>> THEN <<rec>>
    ELSE IF rec.count > sorted[1].count
         THEN <<rec>> \o sorted
         ELSE <<sorted[1]>> \o InsertByCount(Tail(sorted), rec)

RECURSIVE SortByCount(_)
SortByCount(recs) ==
    IF recs = <<>> THEN <<>>
    ELSE InsertByCount(SortByCount(SubSeq(recs, 1, Len(recs) - 1)), recs[Len(recs)])

\* d["Assessment_Grade"].value_counts() of the categorical column: a count
\* for each of the five categories, the largest count first
value_counts(d) ==
    SortByCount([k \in 1..Len(grade_order) |->
                    [grade |-> grade_order[k],
                     count |-> Count(d, "Assessment_Grade", grade_order[k])]])

\* the KPI block of update_dashboard
Kpis_dashboard(d) ==
    IF d = <<>>
    THEN [k_avg |-> "N/A", k_w |-> "N/A", k_pass |-> "N/A", k_perf |-> "N/A"]
    ELSE LET k_avg == Format(SumScore(d), Len(d), 2)
             w_sum == IF HasColumn(d, "Weight") THEN Sum(d, "Weight") ELSE 1
         IN  [k_avg |-> k_avg,
              k_w |-> IF HasColumn(d, "WeightedScore") /\ w_sum > 0
                      THEN Format(Sum(d, "WeightedScore"), w_sum, 2)
                      ELSE k_avg,
              k_pass |-> Format(100 * Passed(d), Len(d), 1) \o "%",
              k_perf |-> Format(100 * Perfect(d), Len(d), 1) \o "%"]

update_dashboard(d0, grade, subject, quarter, pass_status) ==
    LET d1 == IF grade # All THEN Where(d0, "GradeLevel", grade) ELSE d0
        d2 == IF subject # All THEN Where(d1, "SubjectName", subject) ELSE d1
        d3 == IF quarter # All THEN Where(d2, "YearQuarterConcat", quarter) ELSE d2
        Status(r) == PyStr(r.PassedScore) = pass_status
        d == IF pass_status # All THEN SelectSeq(d3, Status) ELSE d3
        levels == GroupKeys(d, "GradeLevel")
        level_students == [k \in 1..Len(levels) |->
                              [GradeLevel |-> levels[k],
                               UniqueStudents |-> NUnique(d, "GradeLevel", levels[k])]]
    IN  [kpi |-> Kpis_dashboard(d),
         charts |-> ("vega-grade-donut" :> Chart(value_counts(d), All))
                    @@ ("vega-level-donut" :> Chart(level_students, All))]

\* the recompute callback of the running variant on the stores in state
Recomputed(v, d, state) ==
    CASE v = "vega" ->
            Return(update_visuals(d, state["store-grade"], state["store-subject"],
                                  state["store-assess-grade"]))
      [] v = "quarter" ->
            Return(update_visuals_Quarter(d, state["store-grade"], state["store-subject"],
                                  state["store-assess-grade"], state["store-quarter"]))
      [] v = "plotly" ->
            update_ui(d, state["store-grade"], state["store-level"], state["store-time"],
                      state["store-subject"], state["time-view-toggle"])
      [] v = "dropdown" ->
            Return(update_dashboard(d, state["filter-grade"], state["filter-subject"],
                                    state["filter-quarter"], state["filter-pass"]))

-----------------------------------------------------------------------------
(* State machine: one browser session of one variant *)

NotRendered == [state |-> <<>>]

Rendered(state, result) == [state |-> state, result |-> result]

\* two subjects of d can have the same mean score in some frame filtered
\* out of d
CanTie(d) ==
    \E rows1, rows2 \in SUBSET (1..Len(d)) \ {{}} :
        /\ \A i \in rows1 : \A j \in rows2 : d[i].SubjectName # d[j].SubjectName
        /\ \A i, j \in rows1 : d[i].SubjectName = d[j].SubjectName
        /\ \A i, j \in rows2 : d[i].SubjectName = d[j].SubjectName
        /\ LET Total(rows) == SumScore([k \in 1..Len(d) |->
                                            IF k \in rows THEN d[k] ELSE [Score |-> 0]])
           IN  Total(rows1) * Cardinality(rows2) = Total(rows2) * Cardinality(rows1)

\* where no two subjects can tie, sort_values has one outcome
InitWith(datasets) ==
    /\ variant \in DOMAIN datasets
    /\ df \in datasets[variant]
    /\ ties \in IF CanTie(df) THEN {"kept", "reversed"} ELSE {"kept"}
    /\ store = Layout(variant)
    /\ last = NoCall
    /\ inflight = <<>>
    /\ shown = NotRendered
    /\ scored = <<>>

\* the page shows the outputs of the current stores and nothing is pending
Idle == inflight = <<>> /\ shown.state = store

\* One interaction processed to its end: the filter callback runs on the
\* properties `state` that the browser holds, its outputs are written, and the
\* recompute callback that the written stores trigger redraws the page.
\* record: whether the observer keeps the finished call in last.
Process(triggered, inputs, state, record) ==
    \E ret \in {Callback(variant, triggered, inputs, state)} :
    \E after \in {Written(variant, state, ret)} :
        /\ store' = after
        /\ shown' = Rendered(after, Recomputed(variant, df, after))
        /\ last' = IF record THEN Finished(triggered, inputs, state, ret) ELSE last
        /\ UNCHANGED <<variant, df, ties, scored, inflight>>

Interact(triggered, inputs, state, record) ==
    Idle /\ Process(triggered, inputs, state, record)

\* the page is loaded: Dash calls every callback once, with nothing triggered
PageLoad(record) ==
    /\ shown = NotRendered
    /\ inflight = <<>>
    /\ Process(<<>>, NoInput(variant), store, record)

\* the reset button is clicked
Reset(record) ==
    Interact(<<ResetButton(variant)>>, NoInput(variant), store, record)

\* a chart reports an interaction event
ChartEvent(record) ==
    \E c \in Charts(variant) : \E payload \in Payloads(variant, c) :
        Interact(<<c>>, OnlyInput(variant, c, payload), store, record)

\* the other option of the time-view toggle is chosen (Plotly variant)
ViewToggle(record) ==
    /\ variant = "plotly"
    /\ \E view \in {PyStr("Quarter"), PyStr("Month")} :
        /\ view # store["time-view-toggle"]
        /\ Interact(<<"time-view-toggle">>, NoInput(variant),
                    [store EXCEPT !["time-view-toggle"] = view], record)

\* the filter callback is invoked for a component id that is neither the
\* reset button nor one of its Inputs.  Dash triggers a callback by its
\* declared Inputs only; the step is the answer of the callback to a trigger
\* id it does not know.
OtherTrigger(record) ==
    Interact(<<"chart-other">>, NoInput(variant), store, record)

OneDataset(v) == {ExampleDataset(v)}

Init == InitWith([v \in Variants |-> OneDataset(v)])

Next ==
    \/ PageLoad(TRUE)
    \/ Reset(TRUE)
    \/ ChartEvent(TRUE)
    \/ ViewToggle(TRUE)
    \/ OtherTrigger(TRUE)

Spec == Init /\ [][Next]_vars

\* the same session over every dataset of the bounds, without the observer
InitData == InitWith([v \in Variants |-> Datasets(v)])

NextData ==
    \/ PageLoad(FALSE)
    \/ Reset(FALSE)
    \/ ChartEvent(FALSE)
    \/ ViewToggle(FALSE)

SpecData == InitData /\ [][NextData]_vars

-----------------------------------------------------------------------------
(* A session in which two Inputs of the filter callback can change at once: *)
(* ctx.triggered then lists both, in either order                           *)

\* two of the reset button and the charts trigger one invocation; a chart
\* that triggers carries the click on a category, the same one in every
\* invocation
TwoTriggers ==
    \E t1, t2 \in Charts(variant) \cup {ResetButton(variant)} :
        /\ t1 # t2
        /\ Interact(<<t1, t2>>,
                    [c \in Charts(variant) |->
                        IF c \in {t1, t2}
                        THEN Click(variant, c, CHOOSE cat \in Categories(variant, c) : TRUE)
                        ELSE PyNone],
                    store, TRUE)

\* a chart alone reports the click on one of its categories
CategoryClick ==
    \E c \in Charts(variant) : \E cat \in Categories(variant, c) :
        Interact(<<c>>, OnlyInput(variant, c, Click(variant, c, cat)), store, TRUE)

NextMulti ==
    \/ PageLoad(TRUE)
    \/ Reset(TRUE)
    \/ CategoryClick
    \/ ViewToggle(TRUE)
    \/ TwoTriggers

SpecMulti == Init /\ [][NextMulti]_vars

-----------------------------------------------------------------------------
(* Every dashboard of the repository, over files with and without the      *)
(* weight columns                                                           *)

MaxWeight == 1      \* the largest weight of a row

Apps == Variants \cup {"dropdown"}

\* the fact table of the worked example read from a file that has the weight
\* columns cols, w[k] being the weight of row k
Weighted(v, cols, w) ==
    [k \in 1..Len(ExampleDataset(v)) |->
        Derived(v, Fact(v, k) @@ [c \in cols |-> IF c = "Weight" THEN w[k]
                                                ELSE Fact(v, k).Score * w[k]])]

WeightedDatasets(v) ==
    {Weighted(v, cols, w) : cols \in SUBSET {"Weight", "WeightedScore"},
                           w \in [1..Len(ExampleDataset(v)) -> 0..MaxWeight]}

\* the page of the dropdown dashboard is loaded: update_dashboard is called
\* with the values of the layout
DashboardLoad ==
    /\ variant = "dropdown"
    /\ shown = NotRendered
    /\ shown' = Rendered(store, Recomputed(variant, df, store))
    /\ UNCHANGED <<variant, df, ties, scored, store, last, inflight>>

\* another option of a dropdown is chosen
Select ==
    /\ variant = "dropdown"
    /\ shown # NotRendered
    /\ \E id \in Range(Dropdowns) : \E value \in Options(df, id) \ {store[id]} :
       \E after \in {[store EXCEPT ![id] = value]} :
            /\ store' = after
            /\ shown' = Rendered(after, Recomputed(variant, df, after))
    /\ UNCHANGED <<variant, df, ties, scored, last, inflight>>

InitApps == InitWith([v \in Apps |-> WeightedDatasets(v)])

NextApps ==
    \/ variant \in Variants /\ PageLoad(FALSE)
    \/ variant \in Variants /\ Reset(FALSE)
    \/ variant \in Variants /\ ChartEvent(FALSE)
    \/ ViewToggle(FALSE)
    \/ DashboardLoad
    \/ Select

SpecApps == InitApps /\ [][NextApps]_vars

-----------------------------------------------------------------------------
(* Interactions that overlap.  The browser reads the State properties when  *)
(* it sends the request and writes the Outputs when the response arrives;   *)
(* nothing in the callbacks or in their declaration holds a request back    *)
(* while another one is unanswered.  Responses arrive in the order of the   *)
(* requests.  A burst is the requests sent from a page with nothing pending *)
(* until nothing is pending again: at most MaxInFlight requests, all sent   *)
(* before the first response of the burst arrives.                          *)

Request(triggered, inputs, state) ==
    [triggered |-> triggered, inputs |-> inputs, state |-> state]

\* the browser sends a request with the State it holds now
Dispatch(triggered, inputs) ==
    /\ shown # NotRendered
    /\ ~last.done
    /\ Len(inflight) < MaxInFlight
    /\ inflight' = Append(inflight, Request(triggered, inputs, store))
    /\ UNCHANGED <<variant, df, ties, scored, store, last, shown>>

\* a chart is clicked on one of its categories
DispatchClick ==
    \E c \in Charts(variant) : \E cat \in Categories(variant, c) :
        Dispatch(<<c>>, OnlyInput(variant, c, Click(variant, c, cat)))

\* the reset button is clicked
DispatchReset == Dispatch(<<ResetButton(variant)>>, NoInput(variant))

\* the response to the oldest request arrives: the callback ran on the State
\* that was sent, its outputs are written and the page is redrawn; the
\* observer keeps the call until the burst is over
Respond ==
    /\ inflight # <<>>
    /\ \E req \in {Head(inflight)} :
       \E ret \in {Callback(variant, req.triggered, req.inputs, req.state)} :
       \E after \in {Written(variant, store, ret)} :
            /\ store' = after
            /\ shown' = Rendered(after, Recomputed(variant, df, after))
            /\ last' = IF Len(inflight) > 1
                       THEN Finished(req.triggered, req.inputs, req.state, ret)
                       ELSE NoCall
    /\ inflight' = Tail(inflight)
    /\ UNCHANGED <<variant, df, ties, scored>>

NextConc ==
    \/ PageLoad(FALSE)
    \/ DispatchClick
    \/ DispatchReset
    \/ Respond

SpecConc == Init /\ [][NextConc]_vars

-----------------------------------------------------------------------------
(* The recompute as a callback of its own.  The stores are the Inputs of    *)
(* update_visuals / update_ui: when the filter callback has written them,   *)
(* the renderer requests the recompute with their new values and writes the *)
(* returned tuple onto the Outputs of the recompute when the response       *)
(* arrives.  The server answers requests in any order.  A new request for a *)
(* callback makes the renderer drop the executions of that callback it is   *)
(* still waiting for: their responses are not written.                      *)

\* a faulty declaration: the recompute has a store where kpi-avg should be
RecomputeOutputs_onto_store(v) ==
    CASE v = "vega" ->
            <<"store-grade", "kpi-wavg", "kpi-pass", "kpi-perfect",
              "chart-grade", "chart-assess", "chart-subject", "filter-status">>
      [] v = "quarter" ->
            <<"store-grade", "kpi-wavg", "kpi-pass", "kpi-perfect",
              "chart-grade", "chart-assess", "chart-subject", "chart-quarter",
              "filter-status">>
      [] v = "plotly" ->
            <<"filter-status-text", "time-chart-title",
              "store-grade", "kpi-weighted", "kpi-pass", "kpi-perfect",
              "chart-grade", "chart-level", "chart-time-trend", "chart-subject">>

\* the Output list of the recompute callback, in the order of the returned tuple
RecomputeOutputs(v) ==
    CASE v = "vega" ->
            <<"kpi-avg", "kpi-wavg", "kpi-pass", "kpi-perfect",
              "chart-grade", "chart-assess", "chart-subject", "filter-status">>
      [] v = "quarter" ->
            <<"kpi-avg", "kpi-wavg", "kpi-pass", "kpi-perfect",
              "chart-grade", "chart-assess", "chart-subject", "chart-quarter",
              "filter-status">>
      [] v = "plotly" ->
            <<"filter-status-text", "time-chart-title",
              "kpi-avg", "kpi-weighted", "kpi-pass", "kpi-perfect",
              "chart-grade", "chart-level", "chart-time-trend", "chart-subject">>

\* the tuple the recompute returns
Returned(v, out) ==
    LET kpis == <<PyStr(out.kpi.k_avg), PyStr(out.kpi.k_w),
                  PyStr(out.kpi.k_pass), PyStr(out.kpi.k_perf)>>
        status_children == [text |-> out.status]
    IN  CASE v = "vega" ->
                kpis \o <<out.charts["chart-grade"], out.charts["chart-assess"],
                          out.charts["chart-subject"], status_children>>
          [] v = "quarter" ->
                kpis \o <<out.charts["chart-grade"], out.charts["chart-assess"],
                          out.charts["chart-subject"], out.charts["chart-quarter"],
                          status_children>>
          [] v = "plotly" ->
                <<status_children, [text |-> out.title]>> \o kpis
                    \o <<out.charts["chart-grade"], out.charts["chart-level"],
                          out.charts["chart-time-trend"], out.charts["chart-subject"]>>

\* the stores and the view toggle after the response of a recompute: a
\* property is written when it is an Output of the recompute
Redrawn(v, state, ret) ==
    IF ~ret.ok THEN state
    ELSE [id \in DOMAIN state |->
            IF id \in Range(RecomputeOutputs(v))
            THEN Returned(v, ret.out)[Position(RecomputeOutputs(v), id)]
            ELSE state[id]]

\* an execution of the recompute the server has not answered yet; watched:
\* the renderer will write its response
Execution(state, watched) == [state |-> state, watched |-> watched]

\* a faulty renderer: an execution is watched until its response arrives
Superseded_none(executions) == executions

\* the executions after a new request for the same callback
Superseded(executions) ==
    [k \in 1..Len(executions) |-> Execution(executions[k].state, FALSE)]

\* the charts that are clicked in these sessions
RenderCharts == {"chart-grade", "chart-subject"}

\* an interaction is processed by the filter callback and the recompute is
\* requested with the stores it wrote
Change(triggered, inputs) ==
    /\ shown # NotRendered
    /\ Len(inflight) < MaxInFlight
    /\ \E ret \in {Callback(variant, triggered, inputs, store)} :
       \E after \in {Written(variant, store, ret)} :
            /\ ret.ok
            /\ store' = after
            /\ inflight' = Append(Superseded(inflight), Execution(after, TRUE))
    /\ UNCHANGED <<variant, df, ties, scored, last, shown>>

ChangeClick ==
    \E c \in RenderCharts : \E cat \in Categories(variant, c) :
        Change(<<c>>, OnlyInput(variant, c, Click(variant, c, cat)))

ChangeReset == Change(<<ResetButton(variant)>>, NoInput(variant))

\* the response of an execution arrives
Finish ==
    /\ \E k \in 1..Len(inflight) :
        /\ inflight' = SubSeq(inflight, 1, k - 1) \o SubSeq(inflight, k + 1, Len(inflight))
        /\ IF inflight[k].watched
           THEN \E result \in {Recomputed(variant, df, inflight[k].state)} :
                    /\ shown' = Rendered(inflight[k].state, result)
                    /\ store' = Redrawn(variant, store, result)
           ELSE UNCHANGED <<shown, store>>
    /\ UNCHANGED <<variant, df, ties, scored, last>>

NextRender ==
    \/ PageLoad(FALSE)
    \/ ChangeClick
    \/ ChangeReset
    \/ Finish

SpecRender == Init /\ [][NextRender]_vars

\* the server answers every request and the page is loaded
SpecRenderFair == SpecRender /\ WF_vars(Finish) /\ WF_vars(PageLoad(FALSE))

-----------------------------------------------------------------------------
(* A session in which the user clicks only what the charts show: a slice or *)
(* a bar that the chart on the page draws with at least one record          *)

\* the categories that chart c of the page shows with at least one record
Visible(c) ==
    IF shown = NotRendered THEN {}
    ELSE IF ~shown.result.ok THEN {}
    ELSE LET chart == shown.result.out.charts[c] IN
         IF chart.nodata THEN {}
         ELSE LET Shows(rec) ==
                    CASE "UniqueStudents" \in DOMAIN rec -> rec.UniqueStudents > 0
                      [] "ExamCount" \in DOMAIN rec -> rec.ExamCount > 0
                      [] OTHER -> rec.Score.n > 0
                  Label(rec) ==
                    CASE "UniqueStudents" \in DOMAIN rec -> rec.GradeLevel
                      [] "ExamCount" \in DOMAIN rec -> rec.Assessment_Grade
                      [] OTHER -> rec.category
              IN  {Label(chart.data[k]) : k \in {i \in 1..Len(chart.data) : Shows(chart.data[i])}}

\* a slice or a bar of a chart of the page is clicked
VisibleClick ==
    \E c \in Charts(variant) : \E cat \in Visible(c) :
        Interact(<<c>>, OnlyInput(variant, c, Click(variant, c, cat)), store, FALSE)

\* a chart reports an event that carries no category
NoCategoryEvent ==
    \E c \in Charts(variant) : \E payload \in EmptyClicks(variant, c) \cup Malformed(variant, c) :
        Interact(<<c>>, OnlyInput(variant, c, payload), store, FALSE)

NextVisible ==
    \/ PageLoad(FALSE)
    \/ Reset(FALSE)
    \/ VisibleClick
    \/ NoCategoryEvent
    \/ ViewToggle(FALSE)

\* the dataset has a record
InitVisible == InitData /\ df # <<>>

SpecVisible == InitVisible /\ [][NextVisible]_vars

-----------------------------------------------------------------------------
(* The derived columns on scores that need not be whole numbers             *)
(* (SpecScore): the mock data draws Score as a float clipped to 0..100      *)

ScoreUnit == 2      \* a score is a multiple of 1 / ScoreUnit
MaxScored == 2      \* rows of the frame of scored rows

\* np.clip(..., 0, 100): the scores from 0 to 100
ScoreValues == {[num |-> n, den |-> ScoreUnit] : n \in 0..(100 * ScoreUnit)}

\* a row with the columns derived from its Score
Scored(s) ==
    [Score |-> s,
     PassedScore |-> PassedScore(s),
     Assessment_Grade |-> PyStr(get_grade(s))]

\* a fact row is loaded and its columns are derived
LoadScore ==
    /\ Len(scored) < MaxScored
    /\ \E s \in ScoreValues : scored' = Append(scored, Scored(s))
    /\ UNCHANGED <<variant, df, ties, store, last, inflight, shown>>

InitScore == InitWith([v \in {"vega"} |-> {<<>>}])

NextScore == LoadScore

SpecScore == InitScore /\ [][NextScore]_vars

-----------------------------------------------------------------------------
(* Properties of the toggle interpreter.  In Spec every interaction is      *)
(* processed to its end before the next one, so `last` is the latest call   *)
(* and `store` is what that call left.                                      *)

\* the latest call was triggered by chart c alone
TriggeredBy(c) == last.done /\ last.triggered = <<c>>

\* ... by a click on category cat of chart c
Clicked(c, cat) == TriggeredBy(c) /\ last.payload = Click(variant, c, cat)

\* the latest call was triggered by the reset button
WasReset == last.done /\ last.triggered = <<ResetButton(variant)>>

\* the stores after chart c reports payload with the properties in state
After(c, payload, state) ==
    Written(variant, state,
            Callback(variant, <<c>>, OnlyInput(variant, c, payload), state))

\* C2  Deselect on repeat click: a click on the category that the store of
\* the chart's dimension already holds sets that store to 'All'.
C2_DeselectOnRepeatClick ==
    \A c \in Charts(variant) : \A cat \in Categories(variant, c) :
        Clicked(c, cat) /\ last.curr[StoreOf(variant, c)] = PyStr(cat)
            => last.ret.ok /\ store[StoreOf(variant, c)] = All

C2_Witness ==
    \E c \in Charts(variant) : \E cat \in Categories(variant, c) :
        /\ Clicked(c, cat)
        /\ last.curr[StoreOf(variant, c)] = PyStr(cat)
        /\ store[StoreOf(variant, c)] = All

\* C3  Select on click of a different value: a click on a category that the
\* store of the chart's dimension does not hold stores that category ...
C3_SelectsClicked ==
    \A c \in Charts(variant) : \A cat \in Categories(variant, c) :
        Clicked(c, cat) /\ last.curr[StoreOf(variant, c)] # PyStr(cat)
            => last.ret.ok /\ store[StoreOf(variant, c)] = PyStr(cat)

\* ... so that a click on v1 followed by a click on another category v2 of
\* the same chart leaves v2 stored, whatever was stored before the two
C3_SecondClickWins ==
    (/\ last.done /\ last'.done
     /\ last'.triggered = last.triggered
     /\ last'.payload # last.payload) =>
        \A c \in Charts(variant) : \A v1, v2 \in Categories(variant, c) :
            (/\ v1 # v2
             /\ Clicked(c, v1)
             /\ last'.triggered = <<c>>
             /\ last'.payload = Click(variant, c, v2))
                => store'[StoreOf(variant, c)] = PyStr(v2)

\* C3  A click on a value other than the stored one selects it; toggle(d, v1)
\* then toggle(d, v2), v1 # v2, applied in sequence leaves d at Selected(v2).
C3_SelectOnDifferentValue == []C3_SelectsClicked /\ [][C3_SecondClickWins]_vars

\* the second of two clicks on different categories has been processed
C3_Witness ==
    \E c \in Charts(variant) : \E v1, v2 \in Categories(variant, c) :
        /\ v1 # v2
        /\ Clicked(c, v2)
        /\ last.curr[StoreOf(variant, c)] = PyStr(v1)
        /\ store[StoreOf(variant, c)] = PyStr(v2)

\* C4  Clear on empty click: when the observed signal of the chart is present
\* and carries no value, the store of the chart's dimension is set to 'All',
\* whatever it held.
C4_ClearOnEmptyClick ==
    \A c \in Charts(variant) :
        TriggeredBy(c) /\ last.payload \in EmptyClicks(variant, c)
            => last.ret.ok /\ store[StoreOf(variant, c)] = All

C4_Witness ==
    \E c \in Charts(variant) :
        /\ TriggeredBy(c) /\ last.payload \in EmptyClicks(variant, c)
        /\ last.curr[StoreOf(variant, c)] # All
        /\ store[StoreOf(variant, c)] = All

\* C5  Frame of toggle: a call triggered by the chart of dimension d, whatever
\* its payload, returns for every other dimension the selection it was given,
\* and the stores of the other dimensions are as they were.
C5_FrameOfToggle ==
    \A c \in Charts(variant) :
        TriggeredBy(c) =>
            \A id \in Stores(variant) \ {StoreOf(variant, c)} :
                /\ last.ret.ok =>
                        last.ret.out[Position(Outputs(variant), id)] = last.curr[id]
                /\ store[id] = last.curr[id]

\* a click changed its own dimension while another dimension was selected
C5_Witness ==
    \E c \in Charts(variant) : \E id \in Stores(variant) \ {StoreOf(variant, c)} :
        /\ TriggeredBy(c)
        /\ last.ret.ok
        /\ store[StoreOf(variant, c)] # last.curr[StoreOf(variant, c)]
        /\ last.curr[id] # All
        /\ store[id] = last.curr[id]

\* the reset button sets every store to 'All'
C6_ResetClears ==
    WasReset => last.ret.ok /\ \A id \in Stores(variant) : store[id] = All

\* a second reset leaves what the first one left
C6_ResetIdempotent ==
    WasReset =>
        Written(variant, store,
                Callback(variant, <<ResetButton(variant)>>, NoInput(variant), store))
            = store

\* a toggle followed by a reset ends in the state of the layout
C6_ToggleThenReset ==
    (/\ \E c \in Charts(variant) : TriggeredBy(c)
     /\ last'.done /\ last'.triggered = <<ResetButton(variant)>>)
        => store' = Layout(variant)

\* C6  Reset: from every reachable Filter State the reset button sets every
\* dimension to 'All'; a second reset changes nothing; a toggle followed by a
\* reset ends in the initial all-'All' state.
C6_Reset ==
    [](C6_ResetClears /\ C6_ResetIdempotent) /\ [][C6_ToggleThenReset]_vars

\* a reset was processed while some dimension was selected
C6_Witness ==
    /\ WasReset
    /\ \E id \in Stores(variant) : last.curr[id] # All
    /\ store = Layout(variant)

\* C7 as stated  Toggle involution from any starting selection: after a click
\* on category v of chart c, a second click on v gives back what the store of
\* the dimension held before the first click.
C7_Involution ==
    \A c \in Charts(variant) : \A cat \in Categories(variant, c) :
        Clicked(c, cat) =>
            After(c, Click(variant, c, cat), store)[StoreOf(variant, c)]
                = last.curr[StoreOf(variant, c)]

\* C7  Two clicks on category v return the dimension to its selection before
\* the first click when that selection was 'All' or v; from any other
\* selection the two clicks end at 'All'.
C7_InvolutionFromAllOrSame ==
    \A c \in Charts(variant) : \A cat \in Categories(variant, c) :
        Clicked(c, cat) =>
            LET before == last.curr[StoreOf(variant, c)]
                twice == After(c, Click(variant, c, cat), store)[StoreOf(variant, c)]
            IN  IF before \in {All, PyStr(cat)} THEN twice = before
                                                ELSE twice = All

\* the first click was made while another category was selected
C7_Witness ==
    \E c \in Charts(variant) : \E v, w \in Categories(variant, c) :
        /\ v # w
        /\ Clicked(c, v)
        /\ last.curr[StoreOf(variant, c)] = PyStr(w)
        /\ store[StoreOf(variant, c)] = PyStr(v)
        /\ After(c, Click(variant, c, v), store)[StoreOf(variant, c)] = All

\* C9  Malformed interactions are no-ops: a chart trigger whose payload is
\* missing, lacks the signal name, lacks the category field or has an empty
\* category list returns the state it was given and no store changes.
C9_MalformedNoOp ==
    \A c \in Charts(variant) :
        TriggeredBy(c) /\ last.payload \in Malformed(variant, c)
            => /\ last.ret.ok
               /\ \A id \in Stores(variant) :
                    last.ret.out[Position(Outputs(variant), id)] = last.curr[id]
               /\ store = last.curr

\* a selection with an empty category list arrived while the dimension was
\* selected
C9_Witness ==
    \E c \in Charts(variant) :
        /\ TriggeredBy(c)
        /\ last.payload = Signal(c, Selection(variant, c, <<>>))
        /\ last.curr[StoreOf(variant, c)] # All
        /\ store = last.curr

-----------------------------------------------------------------------------
(* Properties of the predicate builder and of the recompute, over every     *)
(* dataset of the bounds (SpecData)                                         *)

\* the column of the dataset that a store's selection is compared with
ColumnOf(v, id, value) ==
    CASE id = "store-grade" -> IF v = "plotly" THEN "Assessment_Grade" ELSE "GradeLevel"
      [] id = "store-level" -> "GradeLevel"
      [] id = "store-subject" -> "SubjectName"
      [] id = "store-assess-grade" -> "Assessment_Grade"
      [] id = "store-quarter" -> "YearQuarterConcat"
      [] id = "store-time" ->
            IF value.t = "str" /\ Substring("Q", value.v) THEN "YearQuarterConcat"
                                                          ELSE "YearMonthConcat"

\* the frame that the recompute of variant v filters out of d for the stores
\* in state, the dimensions of the stores in ignored being excluded
Filtered(v, d, state, ignored) ==
    CASE v = "vega" ->
            filter_df(d, state["store-grade"], state["store-subject"],
                      state["store-assess-grade"],
                      "store-grade" \in ignored, "store-subject" \in ignored,
                      "store-assess-grade" \in ignored)
      [] v = "quarter" ->
            local_filter_df(d, state["store-grade"], state["store-subject"],
                      state["store-assess-grade"], state["store-quarter"],
                      "store-grade" \in ignored, "store-subject" \in ignored,
                      "store-assess-grade" \in ignored, "store-quarter" \in ignored)
      [] v = "plotly" ->
            get_context_data(d, state["store-grade"], state["store-level"],
                      state["store-time"], state["store-subject"],
                      "store-grade" \in ignored, "store-level" \in ignored,
                      "store-time" \in ignored, "store-subject" \in ignored)

\* the records of d that equal the selection of every store that is selected
\* and not ignored, in the order of d
Conjunction(v, d, state, ignored) ==
    LET Matches(r) ==
            \A id \in Stores(v) \ ignored :
                state[id] # All => r[ColumnOf(v, id, state[id])] = state[id]
    IN  SelectSeq(d, Matches)

\* the KPI block of variant v on the frame sub filtered out of d
KpisOf(v, d, sub) ==
    CASE v \in {"vega", "quarter"} -> Kpis(sub)
      [] v = "plotly" -> Kpis_ui(d, sub)
      [] v = "dropdown" -> Kpis_dashboard(sub)

\* C8  Filter semantics: the filter returns exactly the records that equal
\* the selection in every dimension that is selected and not ignored; 'All'
\* and ignored dimensions impose nothing; the KPIs are computed from the call
\* that ignores nothing.
C8_FilterSemantics ==
    /\ \A ignored \in SUBSET Stores(variant) :
            Filtered(variant, df, store, ignored)
                = Conjunction(variant, df, store, ignored)
    /\ shown # NotRendered /\ shown.result.ok =>
            shown.result.out.kpi = KpisOf(variant, df, Conjunction(variant, df, shown.state, {}))

\* two dimensions are selected and together keep some records and drop others
C8_Witness ==
    /\ shown # NotRendered /\ shown.result.ok
    /\ \E id1, id2 \in Stores(variant) :
        /\ id1 # id2 /\ store[id1] # All /\ store[id2] # All
        /\ Len(Filtered(variant, df, store, {})) > 0
        /\ Len(Filtered(variant, df, store, {})) < Len(Filtered(variant, df, store, {id1}))
        /\ Len(Filtered(variant, df, store, {})) < Len(Filtered(variant, df, store, {id2}))

\* the charts whose data must not depend on their own selection
SelfExcluded(v) ==
    IF v = "plotly" THEN {"chart-grade", "chart-level", "chart-subject"}
                    ELSE Charts(v)

\* the aggregate drawn in chart c of a recompute result
ChartData(result, c) ==
    IF ~result.ok THEN [raised |-> result.exc]
    ELSE IF result.out.charts[c].nodata THEN NoData
    ELSE [nodata |-> FALSE, data |-> result.out.charts[c].data]

\* C1  Self-exclusion: the aggregate drawn in the chart of dimension d is the
\* same for every value of d's own store ('All' or any category), the other
\* stores and the dataset being fixed.
C1_SelfExclusion ==
    shown # NotRendered =>
        \A c \in SelfExcluded(variant) :
            \A x \in {All} \cup {PyStr(cat) : cat \in Categories(variant, c)} :
                ChartData(Recomputed(variant, df,
                              [shown.state EXCEPT ![StoreOf(variant, c)] = x]), c)
                    = ChartData(shown.result, c)

\* a chart is drawn from more records than its own selection keeps
C1_Witness ==
    /\ shown # NotRendered /\ shown.result.ok
    /\ \E c \in SelfExcluded(variant) :
        /\ store[StoreOf(variant, c)] # All
        /\ ~shown.result.out.charts[c].nodata
        /\ Len(Filtered(variant, df, store, {}))
              < Len(Filtered(variant, df, store, {StoreOf(variant, c)}))

-----------------------------------------------------------------------------
(* Overlapping interactions (SpecConc) *)

\* the stores that result when the request req is processed on state
Applied(req, state) ==
    Written(variant, state, Callback(variant, req.triggered, req.inputs, state))

\* the inputs of a finished call
InputsOf(call) ==
    IF call.triggered[1] \in Charts(variant)
    THEN OnlyInput(variant, call.triggered[1], call.payload)
    ELSE NoInput(variant)

\* a click on a category of chart c
IsToggle(req) ==
    \E c \in Charts(variant) : \E cat \in Categories(variant, c) :
        /\ req.triggered = <<c>>
        /\ req.inputs[c] = Click(variant, c, cat)

IsReset(req) == req.triggered = <<ResetButton(variant)>>

\* two toggles on different dimensions, or a toggle and a reset
PairOfC10(req1, req2) ==
    \/ IsToggle(req1) /\ IsToggle(req2) /\ req1.triggered # req2.triggered
    \/ IsToggle(req1) /\ IsReset(req2)
    \/ IsReset(req1) /\ IsToggle(req2)

\* the answered request that last records
LastRequest == Request(last.triggered, InputsOf(last), last.curr)

\* the response to the first of two requests has been written, the second
\* request was sent with the State that the first was sent with
SecondPending ==
    /\ last.done /\ last.triggered # <<>>
    /\ Len(inflight) = 1
    /\ inflight[1].state = last.curr
    /\ store = Written(variant, last.curr, last.ret)
    /\ PairOfC10(LastRequest, inflight[1])

\* the step that writes the response to the second request leaves what the
\* two requests give when they are applied one after the other
C10_SecondResponse ==
    SecondPending /\ inflight' = <<>> =>
        FilterState(variant, store')
            = FilterState(variant, Applied(inflight[1], Applied(LastRequest, last.curr)))

\* C10  Atomic, serialized transitions: when the second of two interactions
\* (toggles on different dimensions, or a toggle and a reset) is sent with the
\* State read before the outputs of the first were written, the Filter State
\* left by the two responses is the one that the two interactions give when
\* they are applied one at a time in the order they were sent.
C10_Serialized == [][C10_SecondResponse]_vars

\* two requests of such a pair are unanswered, both sent with the same State
C10_Witness ==
    /\ Len(inflight) = 2
    /\ inflight[1].state = inflight[2].state
    /\ PairOfC10(inflight[1], inflight[2])

-----------------------------------------------------------------------------
(* Properties of the KPI block and of the aggregates                        *)

\* the frame the KPIs of the page are computed from: df filtered by every
\* selection of the state the page shows
KpiFrame ==
    IF variant = "dropdown"
    THEN LET Matches(r) ==
                /\ shown.state["filter-grade"] \in {All, r.GradeLevel}
                /\ shown.state["filter-subject"] \in {All, r.SubjectName}
                /\ shown.state["filter-quarter"] \in {All, r.YearQuarterConcat}
                /\ shown.state["filter-pass"] \in {All, PyStr(r.PassedScore)}
         IN  SelectSeq(df, Matches)
    ELSE Conjunction(variant, df, shown.state, {})

KpiNames == {"k_avg", "k_w", "k_pass", "k_perf"}

\* what the KPI block of the variant puts out for the empty frame
NoDataKpis == KpisOf(variant, df, <<>>)

\* C11  KPI no-data sentinel: when the fully filtered frame is empty the four
\* KPI outputs are the no-data sentinel; when it is not empty none of the four
\* is the sentinel of its output, so that a sentinel is never a value computed
\* from records and the four are never a mix; the recompute does not fail on
\* an empty frame.
C11_KpiSentinel ==
    shown # NotRendered =>
        IF KpiFrame = <<>>
        THEN shown.result.ok /\ shown.result.out.kpi = NoDataKpis
        ELSE shown.result.ok =>
                \A k \in KpiNames : shown.result.out.kpi[k] # NoDataKpis[k]

\* an empty frame is shown with its sentinel
C11_Witness ==
    /\ shown # NotRendered /\ shown.result.ok
    /\ KpiFrame = <<>>
    /\ shown.result.out.kpi = NoDataKpis

\* the charts a recompute of variant v draws
Drawn(v) ==
    IF v = "dropdown" THEN {"vega-grade-donut", "vega-level-donut"} ELSE Charts(v)

\* the chart of variant v that shows the Assessment_Grade aggregate
GradeChart(v) ==
    CASE v \in {"vega", "quarter"} -> "chart-assess"
      [] v = "plotly" -> "chart-grade"
      [] v = "dropdown" -> "vega-grade-donut"

\* the charts whose aggregation is handed the frame filtered by the other
\* dimensions, and that frame, for the state the page shows
FrameCharts(v) == IF v = "dropdown" THEN Drawn(v) ELSE SelfExcluded(v)

FrameOf(c) ==
    IF variant = "dropdown" THEN KpiFrame
    ELSE Conjunction(variant, df, shown.state, {StoreOf(variant, c)})

\* the records of a grade chart as pairs <<grade, count>>
GradeRecords(chart) ==
    [k \in 1..Len(chart.data) |->
        IF "grade" \in DOMAIN chart.data[k]
        THEN <<chart.data[k].grade, chart.data[k].count>>
        ELSE <<chart.data[k].Assessment_Grade, chart.data[k].ExamCount>>]

\* C12  Category completeness: whenever the frame handed to the
\* Assessment_Grade aggregate is not empty, the aggregate is exactly five
\* records, one per grade in the order A, B, C, D, F, each with the number of
\* records of that grade in the frame (0 for a grade without a record).
C12_CategoryCompleteness ==
    shown # NotRendered /\ shown.result.ok /\ FrameOf(GradeChart(variant)) # <<>> =>
        LET chart == shown.result.out.charts[GradeChart(variant)]
        IN  /\ ~chart.nodata
            /\ GradeRecords(chart) =
                    [k \in 1..Len(grade_order) |->
                        <<grade_order[k],
                          Count(FrameOf(GradeChart(variant)), "Assessment_Grade",
                                grade_order[k])>>]

\* a grade aggregate is drawn from a frame in which some grade has no record
C12_Witness ==
    /\ shown # NotRendered /\ shown.result.ok
    /\ FrameOf(GradeChart(variant)) # <<>>
    /\ ~shown.result.out.charts[GradeChart(variant)].nodata
    /\ \E k \in 1..Len(grade_order) :
            Count(FrameOf(GradeChart(variant)), "Assessment_Grade", grade_order[k]) = 0

\* the counts of a chart of counts are all zero
AllZero(chart) ==
    \A k \in 1..Len(chart.data) :
        \/ "count" \in DOMAIN chart.data[k] /\ chart.data[k].count = 0
        \/ "ExamCount" \in DOMAIN chart.data[k] /\ chart.data[k].ExamCount = 0
        \/ "UniqueStudents" \in DOMAIN chart.data[k] /\ chart.data[k].UniqueStudents = 0

\* C13  Aggregator no-data marker: a chart whose aggregation is handed an
\* empty frame is the 'No Data' marker, and no chart that is drawn is an empty
\* sequence of aggregate records or a sequence of zero counts.
C13_NoDataMarker ==
    shown # NotRendered /\ shown.result.ok =>
        /\ \A c \in FrameCharts(variant) :
                FrameOf(c) = <<>> => shown.result.out.charts[c] = NoData
        /\ \A c \in Drawn(variant) :
                ~shown.result.out.charts[c].nodata =>
                    /\ shown.result.out.charts[c].data # <<>>
                    /\ ~AllZero(shown.result.out.charts[c])

\* a chart is handed an empty frame while another chart has records to show
C13_Witness ==
    /\ shown # NotRendered /\ shown.result.ok
    /\ \E c1, c2 \in FrameCharts(variant) :
        /\ FrameOf(c1) = <<>> /\ shown.result.out.charts[c1] = NoData
        /\ FrameOf(c2) # <<>> /\ ~shown.result.out.charts[c2].nodata

\* the latest call was the click on grade A of the Assessment_Grade chart,
\* made from the state of the layout
ClickedGradeA ==
    /\ Clicked(GradeChart(variant), "A")
    /\ FilterState(variant, last.curr) = [id \in Stores(variant) |-> All]

\* C14  Worked example: with the three records scoring 90, 60 and 40, graded
\* A, D and F, after the single interaction toggle(Assessment_Grade, 'A') from
\* the initial state the KPI mean is 90 and the Assessment_Grade chart, drawn
\* without its own selection, is A:1, B:0, C:0, D:1, F:1 in that order.
C14_WorkedExample ==
    /\ [k \in 1..Len(df) |-> <<df[k].Score, df[k].Assessment_Grade>>]
            = <<<<90, PyStr("A")>>, <<60, PyStr("D")>>, <<40, PyStr("F")>>>>
    /\ ClickedGradeA =>
            /\ store[StoreOf(variant, GradeChart(variant))] = PyStr("A")
            /\ shown.state = store /\ shown.result.ok
            /\ shown.result.out.kpi.k_avg = "90.00"
            /\ ~shown.result.out.charts[GradeChart(variant)].nodata
            /\ GradeRecords(shown.result.out.charts[GradeChart(variant)])
                    = <<<<"A", 1>>, <<"B", 0>>, <<"C", 0>>, <<"D", 1>>, <<"F", 1>>>>

\* grade A was clicked from the initial state and the page is redrawn
C14_Witness ==
    /\ ClickedGradeA
    /\ shown.state = store /\ shown.result.ok
    /\ store[StoreOf(variant, GradeChart(variant))] = PyStr("A")

\* C20  Weighted mean fallback: on a non-empty frame the weighted average
\* put out is sum(WeightedScore) / sum(Weight) when the frame has both weight
\* columns and sum(Weight) > 0, and the plain mean of Score in every other
\* case, both in the format of the mean.
C20_WeightedMeanFallback ==
    shown # NotRendered /\ shown.result.ok /\ KpiFrame # <<>> =>
        shown.result.out.kpi.k_w =
            IF /\ HasColumn(KpiFrame, "Weight") /\ HasColumn(KpiFrame, "WeightedScore")
               /\ Sum(KpiFrame, "Weight") > 0
            THEN Format(Sum(KpiFrame, "WeightedScore"), Sum(KpiFrame, "Weight"), 2)
            ELSE Format(SumScore(KpiFrame), Len(KpiFrame), 2)

\* a weighted average that differs from the plain mean is shown
C20_Witness ==
    /\ shown # NotRendered /\ shown.result.ok /\ KpiFrame # <<>>
    /\ HasColumn(KpiFrame, "Weight") /\ HasColumn(KpiFrame, "WeightedScore")
    /\ Sum(KpiFrame, "Weight") > 0
    /\ shown.result.out.kpi.k_w
            = Format(Sum(KpiFrame, "WeightedScore"), Sum(KpiFrame, "Weight"), 2)
    /\ shown.result.out.kpi.k_w # shown.result.out.kpi.k_avg

-----------------------------------------------------------------------------
(* Properties of the Filter State and of the callbacks as functions         *)

\* every store holds 'All' or a category of its own dimension
WellFormed(state) ==
    \A id \in Stores(variant) :
        \/ state[id] = All
        \/ /\ state[id].t = "str"
           /\ state[id].v # ""
           /\ \E c \in Charts(variant) :
                /\ StoreOf(variant, c) = id
                /\ state[id].v \in Categories(variant, c)

\* the call was made with a payload of a shape its chart is not drawn to send
ForeignEvent(call) ==
    /\ call.done
    /\ \E c \in Charts(variant) :
            call.triggered = <<c>> /\ call.payload \in Foreign(variant, c)

\* a step from a well-formed Filter State, other than one with a foreign
\* payload, ends in a well-formed one, and a store that changes to a category
\* holds the category that was clicked on its own chart
C15_Step ==
    WellFormed(store) /\ last'.done /\ ~ForeignEvent(last') =>
        /\ WellFormed(store')
        /\ \A id \in Stores(variant) :
                store'[id] # store[id] /\ store'[id] # All =>
                    \E c \in Charts(variant) :
                        /\ StoreOf(variant, c) = id
                        /\ last'.triggered = <<c>>
                        /\ last'.payload = Click(variant, c, store'[id].v)

C16_Totality ==
    last.done =>
        /\ last.ret.ok
        /\ Len(last.ret.out) = Len(Outputs(variant))

\* a call with a payload that carries no category has returned
C16_Witness ==
    /\ last.done /\ last.ret.ok
    /\ \E c \in Charts(variant) :
        /\ last.triggered = <<c>>
        /\ last.payload \in Malformed(variant, c) \cup Foreign(variant, c)
        /\ \E id \in Stores(variant) : last.curr[id] # All

\* the ids that can trigger the filter callback of variant v
Triggers(v) ==
    Charts(v) \cup {ResetButton(v)}
        \cup (IF v = "plotly" THEN {"time-view-toggle"} ELSE {})

\* the latest call was triggered by an id the callback does not know
UnknownTrigger ==
    last.done /\ last.triggered # <<>> /\ last.triggered[1] \notin Triggers(variant)

\* C17  Unknown dimension is a hard failure: a call of the toggle interpreter
\* whose trigger names neither the reset button nor a declared chart is
\* rejected with an exception.
C17_UnknownDimensionRejected == UnknownTrigger => ~last.ret.ok

\* the interpreter was called with an unknown trigger while a filter was set
C17_Witness ==
    UnknownTrigger /\ \E id \in Stores(variant) : last.curr[id] # All

-----------------------------------------------------------------------------
(* Properties of the recompute as a callback of its own (SpecRender)        *)

\* the step is the response of a recompute
IsFinish == Len(inflight') < Len(inflight)

\* the step is an interaction processed by the filter callback
IsChange == Len(inflight') > Len(inflight)

\* a recompute response leaves every store and the dataset as they are; the
\* dataset never changes; the stores change only in the step of the filter
\* callback (an interaction or the page load)
C18_Step ==
    /\ df' = df
    /\ IsFinish => store' = store
    /\ store' # store => IsChange \/ shown = NotRendered

\* C18  Recompute is a pure reader: an execution of update_visuals / update_ui
\* changes neither a filter store nor the dataset; the Filter State changes
\* only by a toggle or reset processed by the filter callback, so it stays
\* constant between two interactions.
C18_RecomputePureReader == [][C18_Step]_vars

\* the recompute of a Filter State with a selection has been written
C18_Witness ==
    /\ shown # NotRendered /\ shown.result.ok
    /\ inflight = <<>>
    /\ shown.state = store
    /\ \E id \in Stores(variant) : store[id] # All

\* when no recompute is pending the page shows the outputs of the stores
C19_LatestShown ==
    inflight = <<>> /\ shown # NotRendered =>
        /\ shown.state = store
        /\ shown.result = Recomputed(variant, df, store)

-----------------------------------------------------------------------------
(* Properties of the KPI values, of the state space and of the status text  *)

\* the decimal places the pass rate is shown with
PassPlaces(v) == IF v = "plotly" THEN 2 ELSE 1

\* the records of the KPI frame whose Score is at least 55
Passing == Cardinality({i \in 1..Len(KpiFrame) : KpiFrame[i].Score >= 55})

\* C21  Pass rate: for a non-empty fully filtered subset the pass-rate KPI is
\* 100 times the number of records whose Score is at least 55, divided by the
\* number of records of the subset, shown rounded to the nearest unit of the
\* variant's last decimal place and followed by '%'.
C21_PassRate ==
    shown # NotRendered /\ shown.result.ok /\ KpiFrame # <<>> =>
        LET n == Len(KpiFrame)
            scale == Pow10(PassPlaces(variant))
            exact == 100 * Passing * scale
            Text(u) == ToString(u \div scale) \o "."
                           \o Padded(u % scale, PassPlaces(variant)) \o "%"
            Diff(u) == IF u * n > exact THEN u * n - exact ELSE exact - u * n
        IN  \E u \in {exact \div n, (exact \div n) + 1} :
                /\ shown.result.out.kpi.k_pass = Text(u)
                /\ 2 * Diff(u) <= n

\* the subset holds a record of exactly 55 and a record below 55, and the
\* rate is not a whole number of percent
C21_Witness ==
    /\ shown # NotRendered /\ shown.result.ok
    /\ \E i, j \in 1..Len(KpiFrame) : KpiFrame[i].Score = 55 /\ KpiFrame[j].Score < 55
    /\ (100 * Passing) % Len(KpiFrame) # 0
    /\ \E id \in DOMAIN shown.state : shown.state[id] # All /\ id # "time-view-toggle"

\* the properties of the page after one toggle or one reset made in state
Successors(v, state) ==
    {Written(v, state, Callback(v, <<ResetButton(v)>>, NoInput(v), state))}
    \cup UNION {{Written(v, state, Callback(v, <<c>>, OnlyInput(v, c, Click(v, c, cat)), state)) :
                    cat \in Categories(v, c)} : c \in Charts(v)}
    \cup {Written(v, toggled, Callback(v, <<"time-view-toggle">>, NoInput(v), toggled)) :
            toggled \in IF v # "plotly" THEN {}
                        ELSE {[state EXCEPT !["time-view-toggle"] = view] :
                                view \in {PyStr("Quarter"), PyStr("Month")} \ {state["time-view-toggle"]}}}

\* the states reached from the states seen by any number of toggles and resets
RECURSIVE ReachableFrom(_, _)
ReachableFrom(v, seen) ==
    LET more == seen \cup UNION {Successors(v, state) : state \in seen}
    IN  IF more = seen THEN seen ELSE ReachableFrom(v, more)

\* Unconstrained or Selected(cat) for every dimension of the variant
CrossProduct(v) ==
    {state \in [Stores(v) -> {All} \cup {PyStr(cat) : cat \in UNION {Categories(v, c) : c \in Charts(v)}}] :
        \A c \in Charts(v) :
            state[StoreOf(v, c)] \in {All} \cup {PyStr(cat) : cat \in Categories(v, c)}}

\* C22  State space: the initial state has every dimension 'All'; every
\* element of the cross product of Unconstrained and Selected(cat) over the
\* dimensions is reached from it by toggles and resets; and in every state of
\* a loaded page the reset and the toggle of every category of every chart
\* are enabled.
C22_StateSpace ==
    /\ shown = NotRendered =>
            /\ \A id \in Stores(variant) : store[id] = All
            /\ CrossProduct(variant)
                   \subseteq {FilterState(variant, state) : state \in ReachableFrom(variant, {store})}
    /\ shown # NotRendered =>
            /\ ENABLED Reset(TRUE)
            /\ \A c \in Charts(variant) : \A cat \in Categories(variant, c) :
                    ENABLED Interact(<<c>>, OnlyInput(variant, c, Click(variant, c, cat)), store, TRUE)

\* every dimension is Selected, the last one by a toggle
C22_Witness ==
    /\ \A id \in Stores(variant) : store[id] # All
    /\ FilterState(variant, store) \in CrossProduct(variant)
    /\ last.done /\ last.triggered # <<>> /\ last.triggered[1] \in Charts(variant)

\* the positions of the dimensions that are Selected in state
SelectedDims(v, state) == {i \in 1..Len(States(v)) : state[States(v)[i]] # All}

\* the pairs of the dimensions at the positions in dims, joined as the status
\* text joins its pairs
RECURSIVE PairsText(_, _, _, _)
PairsText(v, state, dims, from) ==
    IF from > Len(States(v)) THEN ""
    ELSE LET rest == PairsText(v, state, dims, from + 1)
         IN  IF from \notin dims THEN rest
             ELSE StatusPair(v, StatusLabels(v)[from], state[States(v)[from]])
                      \o (IF \E i \in dims : i > from THEN " | " ELSE "") \o rest

\* the sets of dimensions whose pairs make up the text after its heading
PairsIn(v, state, text) ==
    {dims \in SUBSET (1..Len(States(v))) \ {{}} :
        text \in {"Filters: " \o PairsText(v, state, dims, 1),
                  "Filters | " \o PairsText(v, state, dims, 1)}}

\* C23  Status summary: the status text of the recompute holds a
\* dimension=value pair for exactly the dimensions that are Selected, and when
\* every dimension is Unconstrained it holds no pair (it is the all-data
\* marker).
C23_StatusSummary ==
    shown # NotRendered /\ shown.result.ok =>
        PairsIn(variant, shown.state, shown.result.out.status)
            = {SelectedDims(variant, shown.state)} \ {{}}

\* one dimension is Selected and another is Unconstrained on the page shown
C23_Witness ==
    /\ shown # NotRendered /\ shown.result.ok
    /\ SelectedDims(variant, shown.state) \notin {{}, 1..Len(States(variant))}
    /\ PairsIn(variant, shown.state, shown.result.out.status) = {1..Len(States(variant))}

-----------------------------------------------------------------------------
(* Properties of the subject aggregate                                      *)

\* the records of the subject chart in the order its bars are laid out
SubjectBars ==
    IF variant = "quarter" THEN DomainSort(shown.result.out.charts["chart-subject"].data)
                           ELSE shown.result.out.charts["chart-subject"].data

\* the frame of the subject chart: every selection but the subject's own
SubjectFrame == Conjunction(variant, df, shown.state, {"store-subject"})

\* a comes before b in the order of Python's strings
LexBefore(a, b) ==
    \E i, j \in 1..Len(LexOrder("SubjectName")) :
        i < j /\ LexOrder("SubjectName")[i] = a /\ LexOrder("SubjectName")[j] = b

\* C24  Nominal ordering: for a non-empty subset the SubjectName aggregate
\* holds one record for each subject present in the subset and no other,
\* each with the mean score of its subject, ordered by mean descending,
\* subjects of equal mean by subject name ascending.
C24_NominalOrdering ==
    shown # NotRendered /\ shown.result.ok /\ SubjectFrame # <<>> =>
        /\ ~shown.result.out.charts["chart-subject"].nodata
        /\ {SubjectBars[i].category : i \in 1..Len(SubjectBars)}
                = {SubjectFrame[i].SubjectName.v : i \in 1..Len(SubjectFrame)}
        /\ \A i, j \in 1..Len(SubjectBars) :
                i < j =>
                    /\ SubjectBars[i].category # SubjectBars[j].category
                    /\ ~MeanGreater(SubjectBars[j].Score, SubjectBars[i].Score)
                    /\ ~MeanGreater(SubjectBars[i].Score, SubjectBars[j].Score)
                            => LexBefore(SubjectBars[i].category, SubjectBars[j].category)
        /\ \A i \in 1..Len(SubjectBars) :
                LET rows == Where(SubjectFrame, "SubjectName", PyStr(SubjectBars[i].category))
                IN  SubjectBars[i].Score = [sum |-> SumScore(rows), n |-> Len(rows)]

\* two subjects of the subset have the same mean score and the one whose
\* name is the greater is laid out first
C24_Witness ==
    /\ shown # NotRendered /\ shown.result.ok /\ SubjectFrame # <<>>
    /\ \E i, j \in 1..Len(SubjectBars) :
        /\ i < j
        /\ LexBefore(SubjectBars[j].category, SubjectBars[i].category)
        /\ ~MeanGreater(SubjectBars[j].Score, SubjectBars[i].Score)
        /\ ~MeanGreater(SubjectBars[i].Score, SubjectBars[j].Score)

-----------------------------------------------------------------------------
(* Properties of the time dimension of the Plotly variant                   *)

\* the stores of the other dimensions are as the latest call was given them
\* and are returned as given
OthersKept ==
    \A id \in {"store-grade", "store-level", "store-subject"} :
        /\ store[id] = last.curr[id]
        /\ last.ret.out[Position(Outputs(variant), id)] = last.curr[id]

\* the step is the processing of an option of the view toggle
ViewSwitched ==
    /\ variant = "plotly"
    /\ last' # last
    /\ last'.triggered = <<"time-view-toggle">>

C25_Step ==
    ViewSwitched =>
        /\ last'.ret.ok
        /\ last'.curr["time-view-toggle"] # store["time-view-toggle"]
        /\ store' = [store EXCEPT !["store-time"] = All,
                                  !["time-view-toggle"] = last'.curr["time-view-toggle"]]
        /\ \A id \in {"store-grade", "store-level", "store-subject"} :
                last'.ret.out[Position(Outputs(variant), id)] = store[id]

\* C25  Plotly variant, granularity switch: when update_filters is triggered
\* by the time-view toggle the time selection becomes 'All', the view mode
\* becomes the option chosen, and the grade, level and subject selections are
\* returned unchanged.
C25_GranularitySwitch == [][C25_Step]_vars

\* the view was switched while a time and another dimension were selected
C25_Witness ==
    /\ variant = "plotly"
    /\ TriggeredBy("time-view-toggle")
    /\ last.curr["store-time"] # All /\ store["store-time"] = All
    /\ last.curr["store-grade"] # All /\ store["store-grade"] = last.curr["store-grade"]
    /\ store["time-view-toggle"] = PyStr("Quarter")

\* C26  Plotly variant, drill-down: a click on a bar of the time chart in
\* Quarter view sets the time selection to the clicked value and the view
\* mode to 'Month', whether or not that value was already selected; a click
\* in Month view toggles the time selection and keeps the view mode; grade,
\* level and subject are unchanged.
C26_DrillDown ==
    variant = "plotly" =>
        \A cat \in Categories(variant, "chart-time-trend") :
            /\ Clicked("chart-time-trend", cat) =>
                    /\ last.ret.ok /\ OthersKept
                    /\ store["time-view-toggle"] = PyStr("Month")
                    /\ store["store-time"] =
                            IF last.curr["time-view-toggle"] = PyStr("Month")
                               /\ last.curr["store-time"] = PyStr(cat)
                            THEN All ELSE PyStr(cat)
            /\ \A current_time \in {All, PyStr(cat)} :
                    After("chart-time-trend", Click(variant, "chart-time-trend", cat),
                          [store EXCEPT !["store-time"] = current_time,
                                        !["time-view-toggle"] = PyStr("Quarter")])
                        = [store EXCEPT !["store-time"] = PyStr(cat),
                                        !["time-view-toggle"] = PyStr("Month")]

\* a quarter was clicked in Quarter view while another dimension was selected
C26_Witness ==
    /\ variant = "plotly"
    /\ \E cat \in Prefix(QuarterNames) :
        /\ Clicked("chart-time-trend", cat)
        /\ last.curr["time-view-toggle"] = PyStr("Quarter")
        /\ last.curr["store-subject"] # All
        /\ store["store-time"] = PyStr(cat)

\* the bars of the time chart when the time store holds x, the view mode and
\* the other stores being those of the page shown
TimeBars(x) ==
    ChartData(Recomputed(variant, df, [shown.state EXCEPT !["store-time"] = x]),
              "chart-time-trend")

\* C27  Plotly variant, self-exclusion of the time chart: for a fixed view
\* mode and fixed grade, level and subject selections the bars of the
\* time-trend chart are the same for every value of the time selection
\* ('All', a quarter or a month).
C27_TimeSelfExclusion ==
    variant = "plotly" /\ shown # NotRendered =>
        \A x \in {All} \cup {PyStr(cat) : cat \in Categories(variant, "chart-time-trend")} :
            TimeBars(x) = ChartData(shown.result, "chart-time-trend")

\* in Month view a quarter is selected and the chart shows fewer bars than it
\* shows with no time selected
C27_Witness ==
    /\ variant = "plotly" /\ shown # NotRendered /\ shown.result.ok
    /\ shown.state["time-view-toggle"] = PyStr("Month")
    /\ shown.state["store-time"] \in {PyStr(cat) : cat \in Prefix(QuarterNames)}
    /\ ~shown.result.out.charts["chart-time-trend"].nodata
    /\ ~TimeBars(All).nodata
    /\ Len(shown.result.out.charts["chart-time-trend"].data) < Len(TimeBars(All).data)

-----------------------------------------------------------------------------
(* Properties of a session of clicks on what the charts show (SpecVisible)  *)

\* C28  With a non-empty dataset, when every category click names a category
\* that its chart shows with at least one record at the moment of the click
\* and interactions are applied one at a time, the fully filtered subset is
\* never empty (the KPIs never show the no-data sentinel) and every Selected
\* category has a record in the frame of its own dimension's chart.
C28_NeverEmpty ==
    shown # NotRendered =>
        /\ Conjunction(variant, df, store, {}) # <<>>
        /\ shown.result.ok /\ shown.result.out.kpi # NoDataKpis
        /\ \A id \in Stores(variant) :
                store[id] # All =>
                    \E r \in Range(Conjunction(variant, df, store, {id})) :
                        r[ColumnOf(variant, id, store[id])] = store[id]

\* two dimensions are Selected and the subset is smaller than the dataset
C28_Witness ==
    /\ shown # NotRendered /\ shown.result.ok
    /\ \E id1, id2 \in Stores(variant) : id1 # id2 /\ store[id1] # All /\ store[id2] # All
    /\ Len(Conjunction(variant, df, store, {})) < Len(df)
    /\ Len(Conjunction(variant, df, store, {})) > 0

-----------------------------------------------------------------------------
(* Properties of two interactions                                           *)

\* C29  Toggles on different dimensions commute: the toggle of one dimension
\* followed by the toggle of another leaves the Filter State that the two
\* leave in the other order, for any payloads and from every reachable
\* state.  (The latest call is the first toggle, made in the state
\* last.curr; store is what it left.)
C29_TogglesCommute ==
    \A c1 \in Charts(variant) :
        TriggeredBy(c1) =>
            \A c2 \in Charts(variant) \ {c1} : \A payload \in Payloads(variant, c2) :
                After(c2, payload, store)
                    = After(c1, last.payload, After(c2, payload, last.curr))

\* the first toggle changed its dimension and a toggle of another dimension
\* changes that one in the state it left
C29_Witness ==
    \E c1 \in Charts(variant) :
        /\ TriggeredBy(c1)
        /\ store # last.curr
        /\ \E c2 \in Charts(variant) \ {c1} : \E cat \in Categories(variant, c2) :
            /\ After(c2, Click(variant, c2, cat), store) # store
            /\ After(c2, Click(variant, c2, cat), last.curr) # last.curr
            /\ last.curr[StoreOf(variant, c2)] # All

\* the stores after the interaction of trigger t alone, with the Input values
\* of the latest call, in state
Alone(t, state) ==
    Written(variant, state, Callback(variant, <<t>>, last.inputs, state))

\* C30  One invocation triggered by more than one input at once (two chart
\* signals, or the reset button together with a chart signal) leaves the
\* Filter State that the triggering interactions leave when they are applied
\* one at a time in some order; no triggering interaction is dropped.
C30_AllTriggersApplied ==
    last.done /\ Len(last.triggered) = 2 =>
        LET t1 == last.triggered[1]
            t2 == last.triggered[2]
        IN  /\ last.ret.ok
            /\ FilterState(variant, store)
                    \in {FilterState(variant, Alone(t2, Alone(t1, last.curr))),
                         FilterState(variant, Alone(t1, Alone(t2, last.curr)))}

\* two charts triggered one invocation and the stores are those that the
\* first click alone leaves, the second dimension being as it was
C30_Witness ==
    /\ last.done /\ Len(last.triggered) = 2
    /\ last.triggered[1] \in Charts(variant) /\ last.triggered[2] \in Charts(variant)
    /\ store = Alone(last.triggered[1], last.curr)
    /\ store # last.curr
    /\ store[StoreOf(variant, last.triggered[2])] = last.curr[StoreOf(variant, last.triggered[2])]
    /\ Alone(last.triggered[2], store) # store

-----------------------------------------------------------------------------
(* Properties that relate the KPI frame and the chart frames, the two time  *)
(* stores of the Plotly variant, and the two derived columns                *)

\* every row of frame sub is a row of frame d
Within(sub, d) ==
    /\ Len(sub) <= Len(d)
    /\ \A i \in 1..Len(sub) : \E j \in 1..Len(d) : sub[i] = d[j]

\* C31  For every dimension d the fully filtered frame (the KPI frame) is
\* contained in the frame that ignores d's own selection (the frame of d's
\* chart); the two are equal when d is 'All'; and when d is selected the
\* fully filtered frame is exactly the rows of the self-excluded frame whose
\* d column equals the selection.
C31_KpiWithinChartFrame ==
    \A id \in Stores(variant) :
        LET df_kpi == Filtered(variant, df, store, {})
            df_own == Filtered(variant, df, store, {id})
        IN  /\ Within(df_kpi, df_own)
            /\ store[id] = All => df_kpi = df_own
            /\ store[id] # All =>
                    df_kpi = Where(df_own, ColumnOf(variant, id, store[id]), store[id])

\* the page is drawn with two dimensions selected, and for one of them the
\* KPI frame is not empty and smaller than the frame of its chart
C31_Witness ==
    /\ shown # NotRendered /\ shown.result.ok /\ shown.state = store
    /\ \E id, other \in Stores(variant) :
        /\ id # other /\ store[id] # All /\ store[other] # All
        /\ Len(Filtered(variant, df, store, {})) > 0
        /\ Len(Filtered(variant, df, store, {}))
              < Len(Filtered(variant, df, store, {id}))
        /\ Len(Filtered(variant, df, store, {id})) < Len(df)

\* a label of the month column
MonthLabel(value) == \E i \in 1..Len(MonthNames) : value = PyStr(MonthNames[i])

\* C32  Plotly variant, interactions processed one at a time: in every state
\* where the view mode is 'Quarter' the time selection is 'All', and whenever
\* the time selection is a month label the view mode is 'Month'; this holds
\* of the stores and of the state the page is drawn from.
C32_ViewAndTimeAgree ==
    variant = "plotly" =>
        \A state \in {store} \cup (IF shown = NotRendered THEN {} ELSE {shown.state}) :
            /\ state["time-view-toggle"] = PyStr("Quarter") => state["store-time"] = All
            /\ MonthLabel(state["store-time"]) =>
                    state["time-view-toggle"] = PyStr("Month")

\* the view was switched back to 'Quarter' while a month was selected, and
\* the switch cleared the time selection
C32_Witness ==
    /\ variant = "plotly"
    /\ TriggeredBy("time-view-toggle")
    /\ MonthLabel(last.curr["store-time"])
    /\ last.curr["time-view-toggle"] = PyStr("Quarter")
    /\ store["time-view-toggle"] = PyStr("Quarter")
    /\ store["store-time"] = All
    /\ shown # NotRendered /\ shown.state = store

\* the grades of a passing score
PassGrades == {PyStr("A"), PyStr("B"), PyStr("C"), PyStr("D")}

\* the pass-rate KPI of the scored rows when assessment grade g is selected
PassRateOf(g) == k_pass(filter_df(scored, All, All, PyStr(g), FALSE, FALSE, FALSE))

\* C33  The derived pass flag and the derived grade agree for every score,
\* whole or not: a row is 'Pass' exactly when its Assessment_Grade is A, B, C
\* or D and 'Fail' exactly when it is F; so with grade F selected the pass
\* rate of a non-empty subset is 0 and with any of A to D selected it is 100.
C33_PassAgreesWithGrade ==
    /\ \A i \in 1..Len(scored) :
        /\ scored[i].PassedScore = "Pass" <=> scored[i].Assessment_Grade \in PassGrades
        /\ scored[i].PassedScore = "Fail" <=> scored[i].Assessment_Grade = PyStr("F")
    /\ \A g \in Range(grade_order) :
        (\E i \in 1..Len(scored) : scored[i].Assessment_Grade = PyStr(g)) =>
            PassRateOf(g) = IF g = "F" THEN "0.0%" ELSE "100.0%"

\* a score between 54 and 55 is loaded next to a score of 55: both rows have
\* grade D, one fails, and the pass rate with D selected is 50
C33_Witness ==
    /\ Len(scored) = 2
    /\ scored[1].Score.num > 54 * scored[1].Score.den
    /\ scored[1].Score.num < 55 * scored[1].Score.den
    /\ scored[2].Score = [num |-> 55 * ScoreUnit, den |-> ScoreUnit]
    /\ scored[1].Assessment_Grade = PyStr("D") /\ scored[1].PassedScore = "Fail"
    /\ scored[2].Assessment_Grade = PyStr("D") /\ scored[2].PassedScore = "Pass"
    /\ PassRateOf("D") = "50.0%"

\* the flag and the grade agree on every whole score
WholeScoresAgree ==
    \A i \in 1..Len(scored) :
        scored[i].Score.num % scored[i].Score.den = 0 =>
            (scored[i].PassedScore = "Pass" <=> scored[i].Assessment_Grade \in PassGrades)

====
